---- MODULE Spec2Model ----
(***************************************************************************)
(* Model of claude-code-usage: the pricing module (lib/pricing.js), the    *)
(* log scanner (lib/usage.js) and the report run (bin/cli.js).             *)
(*                                                                         *)
(* Strings that the code inspects character by character (model names,     *)
(* pricing keys) are sequences of one-character strings.  Money is kept in *)
(* units of 1e-8 USD, so every rate of the built-in table is an integer.   *)
(* JavaScript null and undefined are both the value Absent.                *)
(***************************************************************************)
EXTENDS Integers, Sequences, FiniteSets, TLC

VARIABLES
    fnName,          \* pure-function harness: the function under evaluation
    fnArgs,          \* its arguments
    fnResult         \* its return value, NoResult before the call

pureVars == <<fnName, fnArgs, fnResult>>

VARIABLES
    cachedPricing,   \* pricing.js module state: the cached table, or AbsentTable
    cacheTimestamp,  \* pricing.js module state: Date.now() of the last write
    now,             \* Date.now(), in milliseconds
    ticks,           \* number of clock advances so far
    calls,           \* the fetchModelPricing calls, by call slot
    lastWrite        \* history: when the cache was last written (AbsentNum
                     \* if never, or cleared since)

pricingVars == <<cachedPricing, cacheTimestamp, now, ticks, calls, lastWrite>>

VARIABLES
    pc,              \* where the run of showUsage stands
    configState,     \* what getUsage found at ~/.claude.json
    error,           \* the error getUsage threw, "none" if none
    usagePricingData, \* getUsage: the table fetchModelPricing returned (pricingData)
    dirCount,        \* getUsage: number of entries of ~/.claude/projects
    dirIdx,          \* getUsage: index of the project directory in hand
    listing,         \* getUsage: the files of that directory, by kind
    fileIdx,         \* getUsage: index of the file in hand
    lines,           \* getUsage: the lines of the file just read (<<>> otherwise)
    projectName,     \* getUsage: the project name of the directory in hand
    messages,        \* getUsage: the records collected so far
    totals,          \* getUsage: the running totals
    missed,          \* history: records of readable .jsonl files never opened
    output           \* what the run printed: none, table, nomessages, error

runVars == <<pc, configState, error, usagePricingData, dirCount, dirIdx, listing,
             fileIdx, lines, projectName, messages, totals, missed, output>>

vars == <<fnName, fnArgs, fnResult,
          cachedPricing, cacheTimestamp, now, ticks, calls, lastWrite,
          pc, configState, error, usagePricingData, dirCount, dirIdx, listing,
          fileIdx, lines, projectName, messages, totals, missed, output>>

\* null/undefined, one marker per kind of value: numbers of the program are
\* never negative, a string of characters never holds a multi-letter element.
AbsentNum == -1
AbsentStr == <<"absent">>
Absent == [absent |-> TRUE]
NoResult == [noresult |-> TRUE]
Returned(v) == [value |-> v]

\* A table is a sequence of rows [key, value] with distinct keys (a Map in
\* insertion order); a null table is AbsentTable.
AbsentTable == <<Absent>>

MaxCalls == 2
Calls == 1 .. MaxCalls

IdleCall ==
    [pc |-> "idle", useCache |-> FALSE, requested |-> FALSE, start |-> AbsentNum,
     lastActivity |-> AbsentNum, outcome |-> "none", result |-> AbsentTable]

\* The pricing module as loaded: nothing cached, no call under way.
PricingIdle ==
    /\ cachedPricing = AbsentTable
    /\ cacheTimestamp = AbsentNum
    /\ now = 1
    /\ ticks = 0
    /\ calls = [c \in Calls |-> IdleCall]
    /\ lastWrite = AbsentNum

ZeroTotals ==
    [messageCount |-> 0, inputTokens |-> 0, outputTokens |-> 0,
     cacheWriteTokens |-> 0, cacheReadTokens |-> 0, models |-> <<>>]

\* The locals of a run before it has done anything.
RunFresh ==
    /\ configState = "unknown"
    /\ error = "none"
    /\ usagePricingData = AbsentTable
    /\ dirCount = 0
    /\ dirIdx = 0
    /\ listing = <<>>
    /\ fileIdx = 0
    /\ lines = <<>>
    /\ projectName = AbsentStr
    /\ messages = <<>>
    /\ totals = ZeroTotals
    /\ missed = 0
    /\ output = "none"

\* No run of showUsage under way.
RunIdle == pc = "idle" /\ RunFresh

PureIdle ==
    /\ fnName = "none"
    /\ fnArgs = Absent
    /\ fnResult = NoResult

\* JavaScript truthiness of a number-or-absent value.
Truthy(v) == v # AbsentNum /\ v # 0

RECURSIVE SumTo(_, _)
SumTo(f, n) == IF n = 0 THEN 0 ELSE f[n] + SumTo(f, n - 1)

(***************************************************************************)
(* lib/pricing.js : calculateCost                                          *)
(***************************************************************************)
calculateCost_wrongRate(tokens, pricing) ==
    IF pricing = Absent THEN 0
    ELSE
      LET c1 == IF Truthy(tokens.inputTokens) /\ Truthy(pricing.input_cost_per_token)
                THEN tokens.inputTokens * pricing.input_cost_per_token ELSE 0
          c2 == IF Truthy(tokens.outputTokens) /\ Truthy(pricing.output_cost_per_token)
                THEN tokens.outputTokens * pricing.output_cost_per_token ELSE 0
          c3 == IF Truthy(tokens.cacheWriteTokens) /\ Truthy(pricing.cache_creation_input_token_cost)
                THEN tokens.cacheWriteTokens * pricing.cache_creation_input_token_cost ELSE 0
          c4 == IF Truthy(tokens.cacheReadTokens) /\ Truthy(pricing.cache_creation_input_token_cost)
                THEN tokens.cacheReadTokens * pricing.cache_creation_input_token_cost ELSE 0
      IN c1 + c2 + c3 + c4

calculateCost(tokens, pricing) ==
    IF pricing = Absent THEN 0
    ELSE
      LET c1 == IF Truthy(tokens.inputTokens) /\ Truthy(pricing.input_cost_per_token)
                THEN tokens.inputTokens * pricing.input_cost_per_token ELSE 0
          c2 == IF Truthy(tokens.outputTokens) /\ Truthy(pricing.output_cost_per_token)
                THEN tokens.outputTokens * pricing.output_cost_per_token ELSE 0
          c3 == IF Truthy(tokens.cacheWriteTokens) /\ Truthy(pricing.cache_creation_input_token_cost)
                THEN tokens.cacheWriteTokens * pricing.cache_creation_input_token_cost ELSE 0
          c4 == IF Truthy(tokens.cacheReadTokens) /\ Truthy(pricing.cache_read_input_token_cost)
                THEN tokens.cacheReadTokens * pricing.cache_read_input_token_cost ELSE 0
      IN c1 + c2 + c3 + c4

\* Bounds of the calculateCost inputs.
MaxTokens == 2
MaxRate == 2

\* One million tokens at 3e-6 USD per token (300 units of 1e-8 USD).
MillionTokens == 1000 * 1000
SonnetInputRate == 300

TokenValues == (0 .. MaxTokens) \cup {MillionTokens}
RateValues == (0 .. MaxRate) \cup {SonnetInputRate, AbsentNum}

TokenTuples ==
    [inputTokens : TokenValues, outputTokens : 0 .. MaxTokens,
     cacheWriteTokens : 0 .. MaxTokens, cacheReadTokens : 0 .. MaxTokens]

PricingEntries ==
    [input_cost_per_token : RateValues,
     output_cost_per_token : RateValues \ {SonnetInputRate},
     cache_creation_input_token_cost : RateValues \ {SonnetInputRate},
     cache_read_input_token_cost : RateValues \ {SonnetInputRate}]

CostInit ==
    /\ PricingIdle
    /\ RunIdle
    /\ fnName = "calculateCost"
    /\ fnArgs \in [tokens : TokenTuples, pricing : PricingEntries \cup {Absent}]
    /\ fnResult = NoResult

CallCalculateCost ==
    /\ fnName = "calculateCost"
    /\ fnResult = NoResult
    /\ fnResult' = Returned(calculateCost(fnArgs.tokens, fnArgs.pricing))
    /\ UNCHANGED <<fnName, fnArgs>>
    /\ UNCHANGED pricingVars
    /\ UNCHANGED runVars

CostNext == CallCalculateCost

SpecCost == CostInit /\ [][CostNext]_vars

\* A term of the weighted sum: an absent rate contributes 0.
RateTerm(n, rate) == IF rate = AbsentNum THEN 0 ELSE n * rate

WeightedSum(tokens, pricing) ==
    RateTerm(tokens.inputTokens, pricing.input_cost_per_token)
    + RateTerm(tokens.outputTokens, pricing.output_cost_per_token)
    + RateTerm(tokens.cacheWriteTokens, pricing.cache_creation_input_token_cost)
    + RateTerm(tokens.cacheReadTokens, pricing.cache_read_input_token_cost)

\* C1: calculateCost returns the exact weighted sum of the four token counts
\* with their rates, an absent rate contributing 0; it returns 0 for an absent
\* pricing entry; the result is never negative.
C1_CostIsWeightedSum ==
    (fnName = "calculateCost" /\ fnResult # NoResult) =>
        /\ fnResult.value >= 0
        /\ fnArgs.pricing = Absent => fnResult.value = 0
        /\ fnArgs.pricing # Absent =>
               fnResult.value = WeightedSum(fnArgs.tokens, fnArgs.pricing)

\* One million input tokens at 3e-6 USD per token cost 3.0 USD (3 * 10^8 units),
\* in a call where a cache-read term with its own rate adds 2 units and the
\* output rate is absent.
C1_Witness ==
    /\ fnName = "calculateCost"
    /\ fnResult # NoResult
    /\ fnArgs.pricing # Absent
    /\ fnArgs.tokens.inputTokens = MillionTokens
    /\ fnArgs.pricing.input_cost_per_token = SonnetInputRate
    /\ fnArgs.tokens.outputTokens = 2
    /\ fnArgs.pricing.output_cost_per_token = AbsentNum
    /\ fnArgs.tokens.cacheWriteTokens = 0
    /\ fnArgs.tokens.cacheReadTokens = 2
    /\ fnArgs.pricing.cache_read_input_token_cost = 1
    /\ fnArgs.pricing.cache_creation_input_token_cost = 2
    /\ fnResult.value = 300000002

(***************************************************************************)
(* Strings as sequences of characters                                      *)
(***************************************************************************)
UpperAlphabet == <<"A","B","C","D","E","F","G","H","I","J","K","L","M",
                   "N","O","P","Q","R","S","T","U","V","W","X","Y","Z">>
LowerAlphabet == <<"a","b","c","d","e","f","g","h","i","j","k","l","m",
                   "n","o","p","q","r","s","t","u","v","w","x","y","z">>

SetMin(S) == CHOOSE m \in S : \A n \in S : m <= n

\* String.prototype.toLowerCase, character by character.
toLowerChar(c) ==
    IF \E i \in 1 .. Len(UpperAlphabet) : UpperAlphabet[i] = c
    THEN LowerAlphabet[CHOOSE i \in 1 .. Len(UpperAlphabet) : UpperAlphabet[i] = c]
    ELSE c

toLowerCase(s) == [i \in 1 .. Len(s) |-> toLowerChar(s[i])]

\* String.prototype.includes: needle occurs in hay as a contiguous run.
Includes(hay, needle) ==
    \E i \in 0 .. (Len(hay) - Len(needle)) :
        SubSeq(hay, i + 1, i + Len(needle)) = needle

(***************************************************************************)
(* lib/pricing.js : the pricing table (a Map in insertion order) and       *)
(* getModelPricing                                                         *)
(***************************************************************************)
\* Map.prototype.get
MapGet(table, k) ==
    IF \E i \in 1 .. Len(table) : table[i].key = k
    THEN table[CHOOSE i \in 1 .. Len(table) : table[i].key = k].value
    ELSE Absent

FALLBACK_PRICING ==
    <<
       [key |-> <<"c","l","a","u","d","e","-","3","-","h","a","i","k","u","-","2","0","2","4","0","3","0","7">>,
        value |-> [input_cost_per_token |-> 25, output_cost_per_token |-> 125,
                   cache_creation_input_token_cost |-> 30, cache_read_input_token_cost |-> 3]],
       [key |-> <<"c","l","a","u","d","e","-","3","-","5","-","h","a","i","k","u","-","2","0","2","4","1","0","2","2">>,
        value |-> [input_cost_per_token |-> 80, output_cost_per_token |-> 400,
                   cache_creation_input_token_cost |-> 100, cache_read_input_token_cost |-> 8]],
       [key |-> <<"c","l","a","u","d","e","-","3","-","5","-","h","a","i","k","u","-","l","a","t","e","s","t">>,
        value |-> [input_cost_per_token |-> 100, output_cost_per_token |-> 500,
                   cache_creation_input_token_cost |-> 125, cache_read_input_token_cost |-> 10]],
       [key |-> <<"c","l","a","u","d","e","-","3","-","o","p","u","s","-","2","0","2","4","0","2","2","9">>,
        value |-> [input_cost_per_token |-> 1500, output_cost_per_token |-> 7500,
                   cache_creation_input_token_cost |-> 1875, cache_read_input_token_cost |-> 150]],
       [key |-> <<"c","l","a","u","d","e","-","3","-","o","p","u","s","-","l","a","t","e","s","t">>,
        value |-> [input_cost_per_token |-> 1500, output_cost_per_token |-> 7500,
                   cache_creation_input_token_cost |-> 1875, cache_read_input_token_cost |-> 150]],
       [key |-> <<"c","l","a","u","d","e","-","3","-","5","-","s","o","n","n","e","t","-","2","0","2","4","0","6","2","0">>,
        value |-> [input_cost_per_token |-> 300, output_cost_per_token |-> 1500,
                   cache_creation_input_token_cost |-> 375, cache_read_input_token_cost |-> 30]],
       [key |-> <<"c","l","a","u","d","e","-","3","-","5","-","s","o","n","n","e","t","-","2","0","2","4","1","0","2","2">>,
        value |-> [input_cost_per_token |-> 300, output_cost_per_token |-> 1500,
                   cache_creation_input_token_cost |-> 375, cache_read_input_token_cost |-> 30]],
       [key |-> <<"c","l","a","u","d","e","-","3","-","5","-","s","o","n","n","e","t","-","l","a","t","e","s","t">>,
        value |-> [input_cost_per_token |-> 300, output_cost_per_token |-> 1500,
                   cache_creation_input_token_cost |-> 375, cache_read_input_token_cost |-> 30]],
       [key |-> <<"c","l","a","u","d","e","-","s","o","n","n","e","t","-","4","-","2","0","2","5","0","5","1","4">>,
        value |-> [input_cost_per_token |-> 300, output_cost_per_token |-> 1500,
                   cache_creation_input_token_cost |-> 375, cache_read_input_token_cost |-> 30]],
       [key |-> <<"c","l","a","u","d","e","-","o","p","u","s","-","4","-","2","0","2","5","0","5","1","4">>,
        value |-> [input_cost_per_token |-> 1500, output_cost_per_token |-> 7500,
                   cache_creation_input_token_cost |-> 1875, cache_read_input_token_cost |-> 150]],
       [key |-> <<"c","l","a","u","d","e","-","4","-","s","o","n","n","e","t","-","2","0","2","5","0","5","1","4">>,
        value |-> [input_cost_per_token |-> 300, output_cost_per_token |-> 1500,
                   cache_creation_input_token_cost |-> 375, cache_read_input_token_cost |-> 30]],
       [key |-> <<"c","l","a","u","d","e","-","4","-","o","p","u","s","-","2","0","2","5","0","5","1","4">>,
        value |-> [input_cost_per_token |-> 1500, output_cost_per_token |-> 7500,
                   cache_creation_input_token_cost |-> 1875, cache_read_input_token_cost |-> 150]]
    >>

ANTHROPIC_PREFIX == <<"a","n","t","h","r","o","p","i","c","/">>
CLAUDE_3_5_PREFIX == <<"c","l","a","u","d","e","-","3","-","5","-">>
CLAUDE_3_PREFIX == <<"c","l","a","u","d","e","-","3","-">>
CLAUDE_PREFIX == <<"c","l","a","u","d","e","-">>

getModelPricing_oneWay(modelName, pricingData) ==
    IF modelName = AbsentStr \/ modelName = <<>> \/ pricingData = AbsentTable
    THEN Absent
    ELSE
      LET exactMatch == MapGet(pricingData, modelName)
          variations == <<modelName,
                          ANTHROPIC_PREFIX \o modelName,
                          CLAUDE_3_5_PREFIX \o modelName,
                          CLAUDE_3_PREFIX \o modelName,
                          CLAUDE_PREFIX \o modelName>>
          variantHits == {i \in 1 .. Len(variations) :
                             MapGet(pricingData, variations[i]) # Absent}
          lowerModelName == toLowerCase(modelName)
          partialHits == {i \in 1 .. Len(pricingData) :
                             Includes(toLowerCase(pricingData[i].key), lowerModelName)}
      IN IF exactMatch # Absent THEN exactMatch
         ELSE IF variantHits # {}
              THEN MapGet(pricingData, variations[SetMin(variantHits)])
         ELSE IF partialHits # {}
              THEN pricingData[SetMin(partialHits)].value
         ELSE Absent

getModelPricing(modelName, pricingData) ==
    IF modelName = AbsentStr \/ modelName = <<>> \/ pricingData = AbsentTable
    THEN Absent
    ELSE
      LET exactMatch == MapGet(pricingData, modelName)
          variations == <<modelName,
                          ANTHROPIC_PREFIX \o modelName,
                          CLAUDE_3_5_PREFIX \o modelName,
                          CLAUDE_3_PREFIX \o modelName,
                          CLAUDE_PREFIX \o modelName>>
          variantHits == {i \in 1 .. Len(variations) :
                             MapGet(pricingData, variations[i]) # Absent}
          lowerModelName == toLowerCase(modelName)
          partialHits == {i \in 1 .. Len(pricingData) :
                             LET lowerKey == toLowerCase(pricingData[i].key)
                             IN \/ Includes(lowerKey, lowerModelName)
                                \/ Includes(lowerModelName, lowerKey)}
      IN IF exactMatch # Absent THEN exactMatch
         ELSE IF variantHits # {}
              THEN MapGet(pricingData, variations[SetMin(variantHits)])
         ELSE IF partialHits # {}
              THEN pricingData[SetMin(partialHits)].value
         ELSE Absent

\* Inputs of getModelPricing: short names over which every step of the
\* lookup can hit or miss.
NameS == <<"s">>
NameUpperS == <<"S">>
NameXsx == <<"x","s","x">>
NameO == <<"o">>
NameQ == <<"q">>

ResolveKeys ==
    <<NameS, ANTHROPIC_PREFIX \o NameS, CLAUDE_3_5_PREFIX \o NameS,
      CLAUDE_3_PREFIX \o NameS, CLAUDE_PREFIX \o NameS, NameXsx, NameO,
      CLAUDE_PREFIX \o NameUpperS>>

ResolveNames ==
    {AbsentStr, <<>>, NameS, NameUpperS, NameXsx, NameQ, NameO,
     CLAUDE_PREFIX \o NameS}

\* The entry stored under the n-th key: its input rate is n, so the entry
\* tells which key was hit.
EntryFor(n) ==
    [input_cost_per_token |-> n, output_cost_per_token |-> 0,
     cache_creation_input_token_cost |-> 0, cache_read_input_token_cost |-> 0]

MaxTableLen == 3

\* Tables of at most MaxTableLen rows with distinct keys, in every order.
ResolveTables ==
    LET idx == 1 .. Len(ResolveKeys)
        picks == UNION {[1 .. n -> idx] : n \in 0 .. MaxTableLen}
        distinct == {p \in picks : \A i, j \in DOMAIN p : i # j => p[i] # p[j]}
    IN {[i \in DOMAIN p |-> [key |-> ResolveKeys[p[i]], value |-> EntryFor(p[i])]] :
            p \in distinct}

ResolveInit ==
    /\ PricingIdle
    /\ RunIdle
    /\ fnName = "getModelPricing"
    /\ fnArgs \in [modelName : ResolveNames,
                   pricingData : ResolveTables \cup {AbsentTable}]
    /\ fnResult = NoResult

CallGetModelPricing ==
    /\ fnName = "getModelPricing"
    /\ fnResult = NoResult
    /\ fnResult' = Returned(getModelPricing(fnArgs.modelName, fnArgs.pricingData))
    /\ UNCHANGED <<fnName, fnArgs>>
    /\ UNCHANGED pricingVars
    /\ UNCHANGED runVars

ResolveNext == CallGetModelPricing

SpecResolve == ResolveInit /\ [][ResolveNext]_vars

\* The claim's lookup, step by step, on a present name and table.
HasKey(table, k) == \E i \in 1 .. Len(table) : table[i].key = k
ValueOf(table, k) == table[CHOOSE i \in 1 .. Len(table) : table[i].key = k].value

VariantKeys(name) ==
    <<ANTHROPIC_PREFIX \o name, CLAUDE_3_5_PREFIX \o name,
      CLAUDE_3_PREFIX \o name, CLAUDE_PREFIX \o name>>

ContainOneAnother(a, b) ==
    Includes(toLowerCase(a), toLowerCase(b)) \/ Includes(toLowerCase(b), toLowerCase(a))

FirstHit(name, table) ==
    IF HasKey(table, name) THEN ValueOf(table, name)
    ELSE IF \E v \in 1 .. 4 : HasKey(table, VariantKeys(name)[v])
         THEN LET v == CHOOSE v \in 1 .. 4 :
                          /\ HasKey(table, VariantKeys(name)[v])
                          /\ \A u \in 1 .. (v - 1) : ~HasKey(table, VariantKeys(name)[u])
              IN ValueOf(table, VariantKeys(name)[v])
    ELSE IF \E i \in 1 .. Len(table) : ContainOneAnother(table[i].key, name)
         THEN LET i == CHOOSE i \in 1 .. Len(table) :
                          /\ ContainOneAnother(table[i].key, name)
                          /\ \A j \in 1 .. (i - 1) : ~ContainOneAnother(table[j].key, name)
              IN table[i].value
    ELSE Absent

\* C10: getModelPricing returns the first hit of: the exact key; the first
\* existing key among anthropic/<name>, claude-3-5-<name>, claude-3-<name>,
\* claude-<name>; the first key in insertion order that contains the name or
\* is contained in it, case-insensitively; otherwise absent.  An absent model
\* name (null, undefined or the empty string, which the code treats alike)
\* or an absent table gives absent.
C10_FirstHitWins ==
    (fnName = "getModelPricing" /\ fnResult # NoResult) =>
        LET name == fnArgs.modelName
            table == fnArgs.pricingData
        IN IF name = AbsentStr \/ name = <<>> \/ table = AbsentTable
           THEN fnResult.value = Absent
           ELSE fnResult.value = FirstHit(name, table)

\* The name "s" looked up in a table that lists a key containing it, then a
\* variant key, then the exact key: the exact entry (third row) is returned.
C10_Witness ==
    /\ fnName = "getModelPricing"
    /\ fnResult # NoResult
    /\ fnArgs.modelName = NameS
    /\ fnArgs.pricingData # AbsentTable
    /\ Len(fnArgs.pricingData) = 3
    /\ fnArgs.pricingData[1].key = NameXsx
    /\ fnArgs.pricingData[2].key = ANTHROPIC_PREFIX \o NameS
    /\ fnArgs.pricingData[3].key = NameS
    /\ fnResult.value = fnArgs.pricingData[3].value

(***************************************************************************)
(* lib/pricing.js : fetchJson, isCacheValid, fetchModelPricing, clearCache *)
(***************************************************************************)
CACHE_DURATION == 60 * 60 * 1000
REQUEST_TIMEOUT == 10000

\* Bound on the number of clock advances, and the advances the clock makes.
MaxTicks == 3
TickSteps == {1, REQUEST_TIMEOUT - 1, CACHE_DURATION - REQUEST_TIMEOUT}

\* The value of one key of the fetched document: an object with optional
\* numeric fields, or something that is not an object.
NonObject ==
    [isObject |-> FALSE, input_cost_per_token |-> AbsentNum,
     output_cost_per_token |-> AbsentNum,
     cache_creation_input_token_cost |-> AbsentNum,
     cache_read_input_token_cost |-> AbsentNum]

ModelObject(i, o, cw, cr) ==
    [isObject |-> TRUE, input_cost_per_token |-> i, output_cost_per_token |-> o,
     cache_creation_input_token_cost |-> cw, cache_read_input_token_cost |-> cr]

\* Response bodies.  entries is Object.entries of the parsed document: for an
\* array the keys are its indices.
InvalidJsonBody == [kind |-> "invalid", entries |-> <<>>]
NullBody == [kind |-> "null", entries |-> <<>>]
ArrayBody == [kind |-> "array", entries |-> <<[name |-> <<"0">>, data |-> NonObject]>>]
MappingBody ==
    [kind |-> "mapping",
     entries |-> <<[name |-> NameS, data |-> ModelObject(3, AbsentNum, AbsentNum, 1)],
                   [name |-> NameO, data |-> ModelObject(AbsentNum, AbsentNum, 2, 2)],
                   [name |-> NameQ, data |-> NonObject],
                   [name |-> NameXsx, data |-> ModelObject(0, AbsentNum, AbsentNum, AbsentNum)]>>]

ResponseBodies == {InvalidJsonBody, NullBody, ArrayBody, MappingBody}

\* x || 0 on an optional number
OrZero(x) == IF Truthy(x) THEN x ELSE 0

\* The loop of fetchModelPricing over Object.entries(data).
HasPricing(e) ==
    /\ e.data.isObject
    /\ (e.data.input_cost_per_token # AbsentNum
        \/ e.data.output_cost_per_token # AbsentNum)

BuildPricing(entries) ==
    LET kept == SelectSeq(entries, HasPricing)
    IN [i \in 1 .. Len(kept) |->
          [key |-> kept[i].name,
           value |-> [input_cost_per_token |-> OrZero(kept[i].data.input_cost_per_token),
                      output_cost_per_token |-> OrZero(kept[i].data.output_cost_per_token),
                      cache_creation_input_token_cost |->
                          OrZero(kept[i].data.cache_creation_input_token_cost),
                      cache_read_input_token_cost |->
                          OrZero(kept[i].data.cache_read_input_token_cost)]]]

\* The table a completed response yields: JSON.parse throwing, or
\* Object.entries throwing on null, lands in the catch block.
TableOfBody(body) ==
    IF body.kind \in {"invalid", "null"}
    THEN FALLBACK_PRICING
    ELSE BuildPricing(body.entries)

isCacheValid_inclusive ==
    /\ cachedPricing # AbsentTable
    /\ Truthy(cacheTimestamp)
    /\ now - cacheTimestamp <= CACHE_DURATION

isCacheValid ==
    /\ cachedPricing # AbsentTable
    /\ Truthy(cacheTimestamp)
    /\ now - cacheTimestamp < CACHE_DURATION

\* fetchModelPricing up to its first await: a cache hit returns at once,
\* otherwise the request is sent and its idle timer armed.
FetchStart(c, useCache) ==
    /\ calls[c].pc = "idle"
    /\ IF useCache /\ isCacheValid
       THEN calls' = [calls EXCEPT ![c] =
                [IdleCall EXCEPT !.pc = "returned", !.useCache = useCache,
                                 !.start = now, !.outcome = "cache",
                                 !.result = cachedPricing]]
       ELSE calls' = [calls EXCEPT ![c] =
                [IdleCall EXCEPT !.pc = "fetching", !.useCache = useCache,
                                 !.requested = TRUE, !.start = now,
                                 !.lastActivity = now]]
    /\ UNCHANGED <<cachedPricing, cacheTimestamp, now, ticks, lastWrite>>
    /\ UNCHANGED pureVars
    /\ UNCHANGED runVars

Settle_keepsYoungCache(c, table, outcome) ==
    /\ cachedPricing' = IF isCacheValid THEN cachedPricing ELSE table
    /\ cacheTimestamp' = IF isCacheValid THEN cacheTimestamp ELSE now
    /\ lastWrite' = IF isCacheValid THEN lastWrite ELSE now
    /\ calls' = [calls EXCEPT ![c] =
            [@ EXCEPT !.pc = "returned", !.outcome = outcome, !.result = table,
                      !.start = AbsentNum, !.lastActivity = AbsentNum]]
    /\ UNCHANGED <<now, ticks>>
    /\ UNCHANGED pureVars
    /\ UNCHANGED runVars

\* Both exits of the try block: cache the table with Date.now() and return it.
Settle(c, table, outcome) ==
    /\ cachedPricing' = table
    /\ cacheTimestamp' = now
    /\ lastWrite' = now
    /\ calls' = [calls EXCEPT ![c] =
            [@ EXCEPT !.pc = "returned", !.outcome = outcome, !.result = table,
                      !.start = AbsentNum, !.lastActivity = AbsentNum]]
    /\ UNCHANGED <<now, ticks>>
    /\ UNCHANGED pureVars
    /\ UNCHANGED runVars

\* response 'data': a chunk arrives; socket activity restarts the idle timer.
ResponseData(c) ==
    /\ calls[c].pc = "fetching"
    /\ calls[c].lastActivity < now
    /\ calls' = [calls EXCEPT ![c].lastActivity = now]
    /\ UNCHANGED <<cachedPricing, cacheTimestamp, now, ticks, lastWrite>>
    /\ UNCHANGED pureVars
    /\ UNCHANGED runVars

\* response 'end': the body is parsed and the table built, or the catch
\* block taken.
ResponseEnd(c, body) ==
    /\ calls[c].pc = "fetching"
    /\ Settle(c, TableOfBody(body), body.kind)

\* request 'error'
RequestError(c) ==
    /\ calls[c].pc = "fetching"
    /\ Settle(c, FALLBACK_PRICING, "error")

\* the setTimeout callback: the socket was idle for REQUEST_TIMEOUT ms
RequestTimeout(c) ==
    /\ calls[c].pc = "fetching"
    /\ now - calls[c].lastActivity >= REQUEST_TIMEOUT
    /\ Settle(c, FALLBACK_PRICING, "timeout")

\* The caller takes the returned table.
FetchReturn(c) ==
    /\ calls[c].pc = "returned"
    /\ calls' = [calls EXCEPT ![c] = IdleCall]
    /\ UNCHANGED <<cachedPricing, cacheTimestamp, now, ticks, lastWrite>>
    /\ UNCHANGED pureVars
    /\ UNCHANGED runVars

clearCache ==
    /\ cachedPricing # AbsentTable
    /\ cachedPricing' = AbsentTable
    /\ cacheTimestamp' = AbsentNum
    /\ lastWrite' = AbsentNum
    /\ UNCHANGED <<now, ticks, calls>>
    /\ UNCHANGED pureVars
    /\ UNCHANGED runVars

\* Time passes; an armed idle timer fires no later than its deadline.
Tick(d) ==
    /\ ticks < MaxTicks
    /\ \A c \in Calls :
          calls[c].pc = "fetching" => now + d <= calls[c].lastActivity + REQUEST_TIMEOUT
    /\ now' = now + d
    /\ ticks' = ticks + 1
    /\ UNCHANGED <<cachedPricing, cacheTimestamp, calls, lastWrite>>
    /\ UNCHANGED pureVars
    /\ UNCHANGED runVars

PricingInit == PricingIdle /\ PureIdle /\ RunIdle

PricingNext ==
    \/ \E c \in Calls, useCache \in BOOLEAN : FetchStart(c, useCache)
    \/ \E c \in Calls : ResponseData(c)
    \/ \E c \in Calls, body \in ResponseBodies : ResponseEnd(c, body)
    \/ \E c \in Calls : RequestError(c)
    \/ \E c \in Calls : RequestTimeout(c)
    \/ \E c \in Calls : FetchReturn(c)
    \/ clearCache
    \/ \E d \in TickSteps : Tick(d)

SpecPricing == PricingInit /\ [][PricingNext]_vars

\* A call has just been made in this step.
CallMade(c) == calls[c].pc = "idle" /\ calls'[c].pc # "idle"

\* The cache was written less than one hour ago and not cleared since.
CacheFresh == lastWrite # AbsentNum /\ now - lastWrite < CACHE_DURATION

\* C6: a fetchModelPricing(useCache=true) call made less than one hour after
\* the cache was last written returns the cached table unchanged and makes no
\* network request; a call with useCache=false, after clearCache, or with a
\* table one hour old or older sends a request.
C6_CacheWindow ==
    [][\A c \in Calls : CallMade(c) =>
          IF calls'[c].useCache /\ CacheFresh
          THEN /\ calls'[c].pc = "returned"
               /\ ~calls'[c].requested
               /\ calls'[c].result = cachedPricing
               /\ cachedPricing' = cachedPricing
               /\ cacheTimestamp' = cacheTimestamp
          ELSE /\ calls'[c].pc = "fetching"
               /\ calls'[c].requested]_vars

\* A call made one millisecond less than an hour after the cache was written
\* was answered from the cache, without a request.
C6_Witness ==
    \E c \in Calls :
        /\ calls[c].pc = "returned"
        /\ calls[c].outcome = "cache"
        /\ ~calls[c].requested
        /\ lastWrite # AbsentNum
        /\ calls[c].start - lastWrite = CACHE_DURATION - 1
        /\ calls[c].result = cachedPricing

\* C7 (as claimed): whenever the fetch fails (network error, timeout, a body
\* that is not valid JSON or not a mapping) the call returns the built-in
\* fallback table and caches it with a fresh timestamp.
C7_FailureFallsBack ==
    [][\A c \in Calls :
          (calls[c].pc = "fetching" /\ calls'[c].pc = "returned"
           /\ calls'[c].outcome # "mapping") =>
              /\ calls'[c].result = FALLBACK_PRICING
              /\ cachedPricing' = FALLBACK_PRICING
              /\ cacheTimestamp' = now]_vars

\* C8 (as claimed): a request that is not completed within the 10-second
\* timeout is abandoned, so no request is in flight longer than that.
C8_RequestBounded ==
    \A c \in Calls :
        calls[c].pc = "fetching" => now - calls[c].start <= REQUEST_TIMEOUT

(***************************************************************************)
(* lib/usage.js : getUsage, inside bin/cli.js : showUsage                  *)
(***************************************************************************)
MaxDirs == 2
MaxFiles == 2
MaxLines == 2

BadDate == -2

NoTokens ==
    [input_tokens |-> AbsentNum, output_tokens |-> AbsentNum,
     cache_write_tokens |-> AbsentNum, cache_creation_input_tokens |-> AbsentNum,
     cache_read_tokens |-> AbsentNum, cache_read_input_tokens |-> AbsentNum]

\* A line of a log file: whether JSON.parse accepts it, and the fields of
\* the parsed object that getUsage reads.  cwd is held split at '/', <<>>
\* when the field is missing.
MalformedLine ==
    [parses |-> FALSE, cwd |-> <<>>, timestamp |-> AbsentNum, hasMessage |-> FALSE,
     hasUsage |-> FALSE, role |-> AbsentStr, model |-> AbsentStr, usage |-> NoTokens]

NoUsageLine ==
    [parses |-> TRUE, cwd |-> <<>>, timestamp |-> 4, hasMessage |-> TRUE,
     hasUsage |-> FALSE, role |-> <<"u","s","e","r">>, model |-> AbsentStr,
     usage |-> NoTokens]

UsageLine ==
    [parses |-> TRUE,
     cwd |-> << <<>>, <<"h","o","m","e">>, <<"w","e","b">> >>,
     timestamp |-> 5, hasMessage |-> TRUE, hasUsage |-> TRUE,
     role |-> <<"a","s","s","i","s","t","a","n","t">>,
     model |-> FALLBACK_PRICING[8].key,
     usage |-> [input_tokens |-> 10, output_tokens |-> 2,
                cache_write_tokens |-> AbsentNum, cache_creation_input_tokens |-> 3,
                cache_read_tokens |-> AbsentNum, cache_read_input_tokens |-> 4]]

\* A usage-bearing line whose timestamp is a string that Date cannot parse
BadDateLine ==
    [UsageLine EXCEPT !.timestamp = BadDate,
                      !.usage = [NoTokens EXCEPT !.input_tokens = 7]]

\* A usage-bearing line without timestamp, of another model
UndatedLine ==
    [UsageLine EXCEPT !.timestamp = AbsentNum,
                      !.model = FALLBACK_PRICING[1].key,
                      !.usage = [NoTokens EXCEPT !.output_tokens = 1]]

LineSet == {MalformedLine, NoUsageLine, UsageLine, BadDateLine, UndatedLine}

FileContents == UNION {[1 .. n -> LineSet] : n \in 0 .. MaxLines}

\* A directory entry: a .jsonl file that can be read, a .jsonl entry whose
\* readFile fails, or a file of another name.
FileKinds == {"jsonl", "unreadable", "other"}
Listings == UNION {[1 .. n -> FileKinds] : n \in 0 .. MaxFiles}

Digits == <<"1","2","3","4","5","6","7","8","9">>
DirName(d) == <<"d", Digits[d]>>

UsageBearing(line) == line.parses /\ line.hasMessage /\ line.hasUsage
YieldsRecord(line) == UsageBearing(line) /\ line.timestamp # BadDate

CountUsageBearing(ls) == Cardinality({i \in 1 .. Len(ls) : UsageBearing(ls[i])})
CountYielding(ls) == Cardinality({i \in 1 .. Len(ls) : YieldsRecord(ls[i])})

SetAdd(seq, x) ==
    IF \E i \in 1 .. Len(seq) : seq[i] = x THEN seq ELSE Append(seq, x)

MessageDetails_creationFirst(line, project, table) ==
    LET usage == line.usage
        inputTokens == OrZero(usage.input_tokens)
        outputTokens == OrZero(usage.output_tokens)
        cacheWriteTokens == IF Truthy(usage.cache_creation_input_tokens)
                            THEN usage.cache_creation_input_tokens
                            ELSE OrZero(usage.cache_write_tokens)
        cacheReadTokens == IF Truthy(usage.cache_read_tokens)
                           THEN usage.cache_read_tokens
                           ELSE OrZero(usage.cache_read_input_tokens)
        modelPricing == getModelPricing(line.model, table)
    IN [timestamp |-> line.timestamp,
        project |-> project,
        role |-> IF line.role = <<>> THEN AbsentStr ELSE line.role,
        inputTokens |-> inputTokens,
        outputTokens |-> outputTokens,
        cacheWriteTokens |-> cacheWriteTokens,
        cacheReadTokens |-> cacheReadTokens,
        model |-> IF line.model = <<>> THEN AbsentStr ELSE line.model,
        cost |-> calculateCost([inputTokens |-> inputTokens,
                                outputTokens |-> outputTokens,
                                cacheWriteTokens |-> cacheWriteTokens,
                                cacheReadTokens |-> cacheReadTokens],
                               modelPricing)]

\* The record of a usage-bearing line (lines 103-131).
MessageDetails(line, project, table) ==
    LET usage == line.usage
        inputTokens == OrZero(usage.input_tokens)
        outputTokens == OrZero(usage.output_tokens)
        cacheWriteTokens == IF Truthy(usage.cache_write_tokens)
                            THEN usage.cache_write_tokens
                            ELSE OrZero(usage.cache_creation_input_tokens)
        cacheReadTokens == IF Truthy(usage.cache_read_tokens)
                           THEN usage.cache_read_tokens
                           ELSE OrZero(usage.cache_read_input_tokens)
        modelPricing == getModelPricing(line.model, table)
    IN [timestamp |-> line.timestamp,
        project |-> project,
        role |-> IF line.role = <<>> THEN AbsentStr ELSE line.role,
        inputTokens |-> inputTokens,
        outputTokens |-> outputTokens,
        cacheWriteTokens |-> cacheWriteTokens,
        cacheReadTokens |-> cacheReadTokens,
        model |-> IF line.model = <<>> THEN AbsentStr ELSE line.model,
        cost |-> calculateCost([inputTokens |-> inputTokens,
                                outputTokens |-> outputTokens,
                                cacheWriteTokens |-> cacheWriteTokens,
                                cacheReadTokens |-> cacheReadTokens],
                               modelPricing)]

AddToTotals_firstModelOnly(t, m) ==
    [messageCount |-> t.messageCount + 1,
     inputTokens |-> t.inputTokens + m.inputTokens,
     outputTokens |-> t.outputTokens + m.outputTokens,
     cacheWriteTokens |-> t.cacheWriteTokens + m.cacheWriteTokens,
     cacheReadTokens |-> t.cacheReadTokens + m.cacheReadTokens,
     models |-> IF m.model # AbsentStr /\ t.models = <<>>
                THEN SetAdd(t.models, m.model) ELSE t.models]

AddToTotals(t, m) ==
    [messageCount |-> t.messageCount + 1,
     inputTokens |-> t.inputTokens + m.inputTokens,
     outputTokens |-> t.outputTokens + m.outputTokens,
     cacheWriteTokens |-> t.cacheWriteTokens + m.cacheWriteTokens,
     cacheReadTokens |-> t.cacheReadTokens + m.cacheReadTokens,
     models |-> IF m.model # AbsentStr THEN SetAdd(t.models, m.model) ELSE t.models]

\* if (!projectName) ... (lines 88-96)
ResolveProject(name, line, dir) ==
    IF name = AbsentStr \/ name = <<>>
    THEN IF line.cwd # <<>> /\ line.cwd # << <<>> >>
         THEN line.cwd[Len(line.cwd)]
         ELSE dir
    ELSE name

ThrowsOnTimestamp_orMissing(line) ==
    line.timestamp = BadDate \/ line.timestamp = AbsentNum

\* data.timestamp ? new Date(data.timestamp).toISOString() : null throws a
\* RangeError when the timestamp is a string that Date cannot parse.
ThrowsOnTimestamp(line) == line.timestamp = BadDate

\* The body of the loop over lines (lines 83-152); st holds projectName,
\* messages and totals.
ProcessLine_noUsageCheck(st, line, dir, table) ==
    IF ~line.parses
    THEN st
    ELSE
      LET pn == ResolveProject(st.projectName, line, dir)
      IN IF ~line.hasMessage \/ ThrowsOnTimestamp(line)
         THEN [st EXCEPT !.projectName = pn]
         ELSE LET m == MessageDetails(line, pn, table)
              IN [projectName |-> pn,
                  messages |-> Append(st.messages, m),
                  totals |-> AddToTotals(st.totals, m)]

ProcessLine(st, line, dir, table) ==
    IF ~line.parses
    THEN st
    ELSE
      LET pn == ResolveProject(st.projectName, line, dir)
      IN IF ~(line.hasMessage /\ line.hasUsage) \/ ThrowsOnTimestamp(line)
         THEN [st EXCEPT !.projectName = pn]
         ELSE LET m == MessageDetails(line, pn, table)
              IN [projectName |-> pn,
                  messages |-> Append(st.messages, m),
                  totals |-> AddToTotals(st.totals, m)]

RECURSIVE ProcessLines_abortOnError(_, _, _, _)
ProcessLines_abortOnError(st, ls, dir, table) ==
    IF ls = <<>> \/ ~Head(ls).parses
    THEN st
    ELSE ProcessLines_abortOnError(ProcessLine(st, Head(ls), dir, table),
                                   Tail(ls), dir, table)

RECURSIVE ProcessLines(_, _, _, _)
ProcessLines(st, ls, dir, table) ==
    IF ls = <<>>
    THEN st
    ELSE ProcessLines(ProcessLine(st, Head(ls), dir, table), Tail(ls), dir, table)

scanVars == <<dirCount, dirIdx, listing, fileIdx, lines, projectName,
              messages, totals, missed>>

\* showUsage is entered: checkForUpdates sends its request to the registry.
ShowUsageStart ==
    /\ pc = "start"
    /\ pc' = "update"
    /\ UNCHANGED <<configState, error, usagePricingData, output>>
    /\ UNCHANGED scanVars
    /\ UNCHANGED pricingVars
    /\ UNCHANGED pureVars

\* checkForUpdates returns: the registry answered (same version, newer
\* version, or a body that does not parse) or the request failed; every
\* failure is swallowed.
UpdateSettled ==
    /\ pc = "update"
    /\ pc' = "config"
    /\ UNCHANGED <<configState, error, usagePricingData, output>>
    /\ UNCHANGED scanVars
    /\ UNCHANGED pricingVars
    /\ UNCHANGED pureVars

ConfigStates == {"absent", "valid", "malformed", "null"}

\* getUsage lines 42-49: pathExists, readJson, config.projects.
ErrorOfConfig(cfg) ==
    CASE cfg = "absent" -> "DetailedError"
      [] cfg = "malformed" -> "SyntaxError"
      [] cfg = "null" -> "TypeError"
      [] OTHER -> "none"

CheckConfig(cfg) ==
    /\ pc = "config"
    /\ configState' = cfg
    /\ error' = ErrorOfConfig(cfg)
    /\ pc' = IF ErrorOfConfig(cfg) = "none" THEN "pricing" ELSE "caught"
    /\ UNCHANGED <<usagePricingData, output>>
    /\ UNCHANGED scanVars
    /\ UNCHANGED pricingVars
    /\ UNCHANGED pureVars

\* fetchModelPricing() as getUsage awaits it: the table is cached at time t
\* and handed to getUsage.
RunSettle(table, t) ==
    /\ pc = "pricing"
    /\ usagePricingData' = table
    /\ cachedPricing' = table
    /\ now' = t
    /\ cacheTimestamp' = t
    /\ lastWrite' = t
    /\ pc' = "projects"
    /\ UNCHANGED <<configState, error, output, ticks, calls>>
    /\ UNCHANGED scanVars
    /\ UNCHANGED pureVars

\* request 'error'
RunPricingError == RunSettle(FALLBACK_PRICING, now)

\* response 'end'
RunPricingEnd(body) == RunSettle(TableOfBody(body), now)

\* the setTimeout callback, REQUEST_TIMEOUT ms after the request was sent
RunPricingTimeout == RunSettle(FALLBACK_PRICING, now + REQUEST_TIMEOUT)

\* Where the scan goes when directory d is finished.
AfterDir(d) == IF d < dirCount THEN "dir" ELSE "return"

\* pathExists and readdir of ~/.claude/projects (lines 66-68).
ReadProjects(state, n) ==
    /\ pc = "projects"
    /\ IF state = "ok"
       THEN /\ dirCount' = n
            /\ dirIdx' = 1
            /\ pc' = IF n = 0 THEN "return" ELSE "dir"
       ELSE /\ n = 0
            /\ dirCount' = 0
            /\ dirIdx' = 0
            /\ pc' = "return"
    /\ UNCHANGED <<configState, error, usagePricingData, output>>
    /\ UNCHANGED <<listing, fileIdx, lines, projectName, messages, totals, missed>>
    /\ UNCHANGED pricingVars
    /\ UNCHANGED pureVars

\* readdir of a project directory (lines 70-75); a failure is caught at
\* line 155 and the next directory is taken.
ReadDir(readable, files) ==
    /\ pc = "dir"
    /\ projectName' = AbsentStr
    /\ lines' = <<>>
    /\ IF readable /\ files # <<>>
       THEN /\ listing' = files
            /\ fileIdx' = 1
            /\ dirIdx' = dirIdx
            /\ pc' = "file"
       ELSE /\ ~readable => files = <<>>
            /\ listing' = <<>>
            /\ fileIdx' = 0
            /\ dirIdx' = dirIdx + 1
            /\ pc' = AfterDir(dirIdx)
    /\ UNCHANGED <<configState, error, usagePricingData, output>>
    /\ UNCHANGED <<dirCount, messages, totals, missed>>
    /\ UNCHANGED pricingVars
    /\ UNCHANGED pureVars

\* The scan moves to the next file of the directory, or leaves it.
NextFile(name) ==
    IF fileIdx < Len(listing)
    THEN /\ fileIdx' = fileIdx + 1
         /\ UNCHANGED <<listing, dirIdx>>
         /\ projectName' = name
         /\ pc' = "file"
    ELSE /\ fileIdx' = 0
         /\ listing' = <<>>
         /\ dirIdx' = dirIdx + 1
         /\ projectName' = AbsentStr
         /\ pc' = AfterDir(dirIdx)

\* One turn of the loop over files (lines 77-154).  For a readable .jsonl
\* file, content is what readFile returns.  When readFile throws, the catch
\* at line 155 leaves the directory; lostIn[i] is the number of lines of the
\* i-th later entry that would have given a record.
ReadFile ==
    /\ pc = "file"
    /\ CASE listing[fileIdx] = "other" ->
              /\ NextFile(projectName)
              /\ lines' = <<>>
              /\ UNCHANGED <<messages, totals, missed>>
         [] listing[fileIdx] = "jsonl" ->
              /\ \E content \in FileContents :
                    LET st == ProcessLines([projectName |-> projectName,
                                            messages |-> messages,
                                            totals |-> totals],
                                           content, DirName(dirIdx),
                                           usagePricingData)
                    IN /\ NextFile(st.projectName)
                       /\ messages' = st.messages
                       /\ totals' = st.totals
                       /\ lines' = content
              /\ UNCHANGED missed
         [] OTHER ->
              /\ \E lostIn \in [1 .. (Len(listing) - fileIdx) -> 0 .. MaxLines] :
                    missed' = missed + SumTo(
                        [i \in 1 .. (Len(listing) - fileIdx) |->
                            IF listing[fileIdx + i] = "jsonl" THEN lostIn[i] ELSE 0],
                        Len(listing) - fileIdx)
              /\ fileIdx' = 0
              /\ listing' = <<>>
              /\ dirIdx' = dirIdx + 1
              /\ projectName' = AbsentStr
              /\ pc' = AfterDir(dirIdx)
              /\ lines' = <<>>
              /\ UNCHANGED <<messages, totals>>
    /\ UNCHANGED <<configState, error, usagePricingData, output, dirCount>>
    /\ UNCHANGED pricingVars
    /\ UNCHANGED pureVars

\* getUsage returns messages and totals (lines 165-178).
GetUsageReturn ==
    /\ pc = "return"
    /\ pc' = "report"
    /\ lines' = <<>>
    /\ UNCHANGED <<configState, error, usagePricingData, output>>
    /\ UNCHANGED <<dirCount, dirIdx, listing, fileIdx, projectName, messages,
                   totals, missed>>
    /\ UNCHANGED pricingVars
    /\ UNCHANGED pureVars

\* showUsage lines 67-226 for a run without filter options: the rows are
\* empty exactly when there are no records.
Report ==
    /\ pc = "report"
    /\ output' = IF Len(messages) > 0 THEN "table" ELSE "nomessages"
    /\ pc' = "done"
    /\ UNCHANGED <<configState, error, usagePricingData>>
    /\ UNCHANGED scanVars
    /\ UNCHANGED pricingVars
    /\ UNCHANGED pureVars

\* showUsage lines 228-234: the error getUsage threw is printed.
PrintError ==
    /\ pc = "caught"
    /\ output' = "error"
    /\ pc' = "done"
    /\ UNCHANGED <<configState, error, usagePricingData>>
    /\ UNCHANGED scanVars
    /\ UNCHANGED pricingVars
    /\ UNCHANGED pureVars

RunInit == PricingIdle /\ PureIdle /\ RunFresh /\ pc = "start"

RunNext ==
    \/ ShowUsageStart
    \/ UpdateSettled
    \/ \E cfg \in ConfigStates : CheckConfig(cfg)
    \/ RunPricingError
    \/ \E body \in ResponseBodies : RunPricingEnd(body)
    \/ RunPricingTimeout
    \/ \E state \in {"ok", "missing", "unreadable"}, n \in 0 .. MaxDirs :
           ReadProjects(state, n)
    \/ \E readable \in BOOLEAN, files \in Listings : ReadDir(readable, files)
    \/ ReadFile
    \/ GetUsageReturn
    \/ Report
    \/ PrintError

SpecRun == RunInit /\ [][RunNext]_vars

\* The steps of the program and its timer are taken when they can be; the
\* registry and the pricing server answer or not, as they please.
FairRun ==
    /\ SpecRun
    /\ WF_vars(ShowUsageStart)
    /\ WF_vars(\E cfg \in ConfigStates : CheckConfig(cfg))
    /\ WF_vars(RunPricingTimeout)
    /\ WF_vars(\E state \in {"ok", "missing", "unreadable"}, n \in 0 .. MaxDirs :
                   ReadProjects(state, n))
    /\ WF_vars(\E readable \in BOOLEAN, files \in Listings : ReadDir(readable, files))
    /\ WF_vars(ReadFile)
    /\ WF_vars(GetUsageReturn)
    /\ WF_vars(Report)
    /\ WF_vars(PrintError)

\* The step in hand reads a .jsonl file that readFile returns.
ReadsJsonl == pc = "file" /\ listing[fileIdx] = "jsonl"

\* Record m carries the token counts of line l.
TokensOf(m, l) ==
    /\ m.inputTokens = OrZero(l.usage.input_tokens)
    /\ m.outputTokens = OrZero(l.usage.output_tokens)

\* C2: getUsage emits a record only for a line that contains a nested
\* message.usage object: reading a file adds at most one record per
\* usage-bearing line, each new record is that of a usage-bearing line of the
\* file, and a file without such a line changes neither messages nor totals.
C2_RecordsOnlyForUsage ==
    [][ReadsJsonl =>
          LET n == CountUsageBearing(lines')
          IN /\ Len(messages') <= Len(messages) + n
             /\ totals'.messageCount <= totals.messageCount + n
             /\ SubSeq(messages', 1, Len(messages)) = messages
             /\ \A k \in (Len(messages) + 1) .. Len(messages') :
                   \E i \in 1 .. Len(lines') :
                       UsageBearing(lines'[i]) /\ TokensOf(messages'[k], lines'[i])
             /\ n = 0 => (messages' = messages /\ totals' = totals)]_vars

\* The first file read held a line without usage and a usage-bearing line:
\* one record, one counted message.
C2_Witness ==
    /\ lines = <<NoUsageLine, UsageLine>>
    /\ Len(messages) = 1
    /\ totals.messageCount = 1
    /\ totals.inputTokens = 10

\* C3: a line that fails to parse is skipped without aborting the file or
\* the run: every well-formed usage-bearing line of the file, before and
\* after it, yields its record, nothing is thrown, and the scan goes on with
\* the next file of the directory, or the next directory.
C3_MalformedLineSkipped ==
    [][(ReadsJsonl /\ \E i \in 1 .. Len(lines') : ~lines'[i].parses) =>
          /\ Len(messages') = Len(messages) + CountYielding(lines')
          /\ totals'.messageCount = totals.messageCount + CountYielding(lines')
          /\ error' = "none"
          /\ missed' = missed
          /\ fileIdx < Len(listing) =>
                 (pc' = "file" /\ fileIdx' = fileIdx + 1 /\ dirIdx' = dirIdx)
          /\ fileIdx = Len(listing) =>
                 (dirIdx' = dirIdx + 1 /\ pc' = IF dirIdx < dirCount THEN "dir" ELSE "return")]_vars

\* A file whose usage-bearing line comes after a malformed line gave its
\* record, and the next file of the directory is in hand.
C3_Witness ==
    /\ lines = <<MalformedLine, UsageLine>>
    /\ Len(messages) = 1
    /\ pc = "file"
    /\ fileIdx = 2
    /\ error = "none"

\* C4 (as claimed): when a log file cannot be read only that file is
\* skipped, so the result of getUsage misses no record of a readable file.
C4_OnlyUnreadableFileSkipped ==
    pc \in {"report", "done"} => missed = 0

\* C5 (as claimed): getUsage throws only when ~/.claude.json is absent, and
\* then a DetailedError; with the file present, whatever its content, it
\* returns a result.
C5_ThrowsOnlyWhenConfigAbsent ==
    /\ error # "none" => (configState = "absent" /\ error = "DetailedError")
    /\ configState = "absent" => error = "DetailedError"

\* C9 (as claimed): a run of showUsage always reaches its output, even when no
\* network request made during the run is ever answered.
C9_RunReachesOutput == <>(output # "none")

(***************************************************************************)
(* Date : instants are whole seconds since 1970-01-01T00:00:00Z (the       *)
(* milliseconds of a Date are not kept); the process runs with TZ=UTC, so  *)
(* local time fields are UTC fields.  InvalidDate is the Date whose time   *)
(* value is NaN; every comparison with it is false.                        *)
(***************************************************************************)
InvalidDate == BadDate

SecondsPerMinute == 60
SecondsPerHour == 60 * 60
SecondsPerDay == 24 * 60 * 60
EpochYear == 1970

IsLeapYear(y) == (y % 4 = 0 /\ y % 100 # 0) \/ y % 400 = 0

DaysInMonths(y) ==
    <<31, IF IsLeapYear(y) THEN 29 ELSE 28, 31, 30, 31, 30, 31, 31, 30, 31, 30, 31>>

\* Number of leap years in 1 .. y.
LeapsThrough(y) == (y \div 4) - (y \div 100) + (y \div 400)

\* Days from the epoch to January 1 of year y.
DaysBeforeYear(y) ==
    365 * (y - EpochYear) + LeapsThrough(y - 1) - LeapsThrough(EpochYear - 1)

RECURSIVE DaysBeforeMonth(_, _)
\* Days from January 1 of year y to the first of month m (0-based, 0 .. 11).
DaysBeforeMonth(y, m) ==
    IF m = 0 THEN 0 ELSE DaysInMonths(y)[m] + DaysBeforeMonth(y, m - 1)

\* ECMAScript MakeDay: month (0-based) and date may lie outside their ranges
\* and carry over into the neighbouring months and years.
MakeDay(year, month, date) ==
    LET ym == year + (month \div 12)
        mn == month % 12
    IN DaysBeforeYear(ym) + DaysBeforeMonth(ym, mn) + date - 1

\* new Date(year, month, date, hours, minutes, seconds) in local time.
MakeDate(year, month, date, hours, minutes, seconds) ==
    MakeDay(year, month, date) * SecondsPerDay
        + hours * SecondsPerHour + minutes * SecondsPerMinute + seconds

Day(t) == t \div SecondsPerDay
TimeWithinDay(t) == t % SecondsPerDay

\* Date.prototype.getFullYear / getMonth (0-based) / getDate
getFullYear(t) ==
    LET guess == EpochYear + (Day(t) \div 366)
    IN CHOOSE y \in guess .. (guess + 1) :
           DaysBeforeYear(y) <= Day(t) /\ Day(t) < DaysBeforeYear(y + 1)

getMonth(t) ==
    LET y == getFullYear(t)
        dayInYear == Day(t) - DaysBeforeYear(y)
    IN CHOOSE m \in 0 .. 11 :
           /\ DaysBeforeMonth(y, m) <= dayInYear
           /\ dayInYear < DaysBeforeMonth(y, m) + DaysInMonths(y)[m + 1]

getDate(t) ==
    LET y == getFullYear(t)
    IN Day(t) - DaysBeforeYear(y) - DaysBeforeMonth(y, getMonth(t)) + 1

\* Date.prototype.setMinutes / setHours / setDate / setMonth / setFullYear
\* with one argument: the named field is replaced, the others are kept, and
\* the fields are put together again by MakeDay.
setMinutes(t, min) ==
    LET hours == TimeWithinDay(t) \div SecondsPerHour
        seconds == t % SecondsPerMinute
    IN Day(t) * SecondsPerDay + hours * SecondsPerHour
           + min * SecondsPerMinute + seconds

getMinutes(t) == (TimeWithinDay(t) % SecondsPerHour) \div SecondsPerMinute

setHours(t, hours) ==
    Day(t) * SecondsPerDay + hours * SecondsPerHour + (t % SecondsPerHour)

getHours(t) == TimeWithinDay(t) \div SecondsPerHour

setDate(t, date) ==
    MakeDay(getFullYear(t), getMonth(t), date) * SecondsPerDay + TimeWithinDay(t)

setMonth(t, month) ==
    MakeDay(getFullYear(t), month, getDate(t)) * SecondsPerDay + TimeWithinDay(t)

setFullYear(t, year) ==
    MakeDay(year, getMonth(t), getDate(t)) * SecondsPerDay + TimeWithinDay(t)

\* Date >= Date and Date <= Date: false when either side is invalid.
DateGe(a, b) == a # InvalidDate /\ b # InvalidDate /\ a >= b
DateLe(a, b) == a # InvalidDate /\ b # InvalidDate /\ a <= b

(***************************************************************************)
(* lib/filters.js : strings and the regular expressions of parseTimeFilter *)
(***************************************************************************)
DecimalDigits == <<"0","1","2","3","4","5","6","7","8","9">>

IsDigit(c) == \E i \in 1 .. Len(DecimalDigits) : DecimalDigits[i] = c
IsLowerLetter(c) == \E i \in 1 .. Len(LowerAlphabet) : LowerAlphabet[i] = c
\* \s : the white space of the inputs is the blank
IsSpace(c) == c = " "

DigitValue(c) == (CHOOSE i \in 1 .. Len(DecimalDigits) : DecimalDigits[i] = c) - 1

\* \d+ and [a-z]+ over a whole string
AllDigits(s) == Len(s) > 0 /\ \A i \in 1 .. Len(s) : IsDigit(s[i])
AllLowerLetters(s) == Len(s) > 0 /\ \A i \in 1 .. Len(s) : IsLowerLetter(s[i])

RECURSIVE parseInt(_)
\* parseInt of a string of decimal digits
parseInt(s) ==
    IF s = <<>> THEN 0
    ELSE 10 * parseInt(SubSeq(s, 1, Len(s) - 1)) + DigitValue(s[Len(s)])

\* filter.replace(/\s+/g, '')
RemoveSpaces(s) == SelectSeq(s, LAMBDA c : ~IsSpace(c))

EndsWith(s, suffix) ==
    Len(s) >= Len(suffix) /\ SubSeq(s, Len(s) - Len(suffix) + 1, Len(s)) = suffix

\* /^\d+<unit>$/
MatchesRelative(s, unit) ==
    EndsWith(s, unit) /\ AllDigits(SubSeq(s, 1, Len(s) - Len(unit)))

\* parseInt(s.match(/^\d+/)[0]) of a string that matches /^\d+<unit>$/
RelativeCount(s, unit) == parseInt(SubSeq(s, 1, Len(s) - Len(unit)))

RECURSIVE Split(_, _)
\* String.prototype.split on a one-character separator
Split(s, sep) ==
    IF \A i \in 1 .. Len(s) : s[i] # sep THEN <<s>>
    ELSE LET i == SetMin({j \in 1 .. Len(s) : s[j] = sep})
         IN <<SubSeq(s, 1, i - 1)>> \o Split(SubSeq(s, i + 1, Len(s)), sep)

DigitsOfLength(s, lo, hi) == AllDigits(s) /\ Len(s) >= lo /\ Len(s) <= hi

\* /^\d{1,2}-\d{1,2}$/
MatchesMonthRange(s) ==
    LET parts == Split(s, "-")
    IN Len(parts) = 2 /\ \A i \in 1 .. 2 : DigitsOfLength(parts[i], 1, 2)

\* /^([a-z]+)-([a-z]+)$/
MatchesNameRange(s) ==
    LET parts == Split(s, "-")
    IN Len(parts) = 2 /\ \A i \in 1 .. 2 : AllLowerLetters(parts[i])

\* /^(\d{4})-(\d{1,2})-(\d{4})-(\d{1,2})$/
MatchesYearMonthRange(s) ==
    LET parts == Split(s, "-")
    IN /\ Len(parts) = 4
       /\ DigitsOfLength(parts[1], 4, 4) /\ DigitsOfLength(parts[2], 1, 2)
       /\ DigitsOfLength(parts[3], 4, 4) /\ DigitsOfLength(parts[4], 1, 2)

\* \d{4}-\d{2}-\d{2}
IsDateText(s) ==
    LET parts == Split(s, "-")
    IN /\ Len(parts) = 3
       /\ DigitsOfLength(parts[1], 4, 4) /\ DigitsOfLength(parts[2], 2, 2)
       /\ DigitsOfLength(parts[3], 2, 2)

\* \d{2}(:\d{2}){fields - 1}
IsClockText(s, fields) ==
    LET parts == Split(s, ":")
    IN Len(parts) = fields /\ \A i \in 1 .. fields : DigitsOfLength(parts[i], 2, 2)

\* \d{4}-\d{2}-\d{2}[t\s]<clock of so many fields>
IsDateTimeText(s, fields) ==
    /\ Len(s) > 11
    /\ IsDateText(SubSeq(s, 1, 10))
    /\ (s[11] = "t" \/ IsSpace(s[11]))
    /\ IsClockText(SubSeq(s, 12, Len(s)), fields)

\* /^(<date>),(<date>)$/ ; fields = 0 for a date without clock
MatchesRange(s, fields) ==
    LET parts == Split(s, ",")
    IN /\ Len(parts) = 2
       /\ \A i \in 1 .. 2 : IF fields = 0 THEN IsDateText(parts[i])
                            ELSE IsDateTimeText(parts[i], fields)

\* new Date('YYYY-MM-DDTHH:MM:SS'), read as local time; a field outside its
\* range gives the invalid Date.
DateOfText(date, clock) ==
    LET d == Split(date, "-")
        year == parseInt(d[1])
        month == parseInt(d[2])
        day == parseInt(d[3])
    IN IF \/ month < 1 \/ month > 12
          \/ day < 1 \/ day > DaysInMonths(year)[month]
          \/ clock[1] > 23 \/ clock[2] > 59 \/ clock[3] > 59
       THEN InvalidDate
       ELSE MakeDate(year, month - 1, day, clock[1], clock[2], clock[3])

\* The clock of a date-time text, the fields it lacks taken from rest.
ClockOfText(s, rest) ==
    LET given == Split(SubSeq(s, 12, Len(s)), ":")
    IN [i \in 1 .. 3 |-> IF i <= Len(given) THEN parseInt(given[i]) ELSE rest]

\* The property table monthNames; a property it lacks is looked up in
\* Object.prototype, whose properties are functions.
monthNames ==
    << [key |-> <<"j","a","n">>, value |-> 1],
       [key |-> <<"j","a","n","u","a","r","y">>, value |-> 1],
       [key |-> <<"f","e","b">>, value |-> 2],
       [key |-> <<"f","e","b","r","u","a","r","y">>, value |-> 2],
       [key |-> <<"m","a","r">>, value |-> 3],
       [key |-> <<"m","a","r","c","h">>, value |-> 3],
       [key |-> <<"a","p","r">>, value |-> 4],
       [key |-> <<"a","p","r","i","l">>, value |-> 4],
       [key |-> <<"m","a","y">>, value |-> 5],
       [key |-> <<"j","u","n">>, value |-> 6],
       [key |-> <<"j","u","n","e">>, value |-> 6],
       [key |-> <<"j","u","l">>, value |-> 7],
       [key |-> <<"j","u","l","y">>, value |-> 7],
       [key |-> <<"a","u","g">>, value |-> 8],
       [key |-> <<"a","u","g","u","s","t">>, value |-> 8],
       [key |-> <<"s","e","p">>, value |-> 9],
       [key |-> <<"s","e","p","t","e","m","b","e","r">>, value |-> 9],
       [key |-> <<"o","c","t">>, value |-> 10],
       [key |-> <<"o","c","t","o","b","e","r">>, value |-> 10],
       [key |-> <<"n","o","v">>, value |-> 11],
       [key |-> <<"n","o","v","e","m","b","e","r">>, value |-> 11],
       [key |-> <<"d","e","c">>, value |-> 12],
       [key |-> <<"d","e","c","e","m","b","e","r">>, value |-> 12] >>

ObjectPrototypeNames ==
    {<<"c","o","n","s","t","r","u","c","t","o","r">>,
     <<"h","a","s","O","w","n","P","r","o","p","e","r","t","y">>,
     <<"i","s","P","r","o","t","o","t","y","p","e","O","f">>,
     <<"p","r","o","p","e","r","t","y","I","s","E","n","u","m","e","r","a","b","l","e">>,
     <<"t","o","L","o","c","a","l","e","S","t","r","i","n","g">>,
     <<"t","o","S","t","r","i","n","g">>,
     <<"v","a","l","u","e","O","f">>}

\* The number a function converts to in arithmetic (NaN).
NotANumber == -3

\* monthNames[name]
MonthNameLookup(name) ==
    IF \E i \in 1 .. Len(monthNames) : monthNames[i].key = name
    THEN MapGet(monthNames, name)
    ELSE IF name \in ObjectPrototypeNames THEN NotANumber ELSE AbsentNum

\* new Date(year, month, date) ; a NaN argument gives the invalid Date.
NewLocalDate(year, month, date) ==
    IF month = NotANumber THEN InvalidDate ELSE MakeDate(year, month, date, 0, 0, 0)

(***************************************************************************)
(* lib/filters.js : parseTimeFilter, filterByTime, filterByProject,        *)
(* applyFilters.  A call returns Returned(v) or Thrown(e).                 *)
(***************************************************************************)
Thrown(e) == [thrown |-> e]

\* A string is falsy when it is absent or empty.
TruthyStr(s) == s # AbsentStr /\ s # <<>>

TimeRange(start, end) == [start |-> start, end |-> end]

InvalidTimeFilter(timeFilter) ==
    [name |-> "Error",
     message |-> "Invalid time filter format: ",
     offending |-> timeFilter,
     examples |-> "5min, 2h, 7d, 1m, 1y, 2024-07-01 14:30:15,2024-07-01 16:45:30"]

UNIT_MIN == <<"m","i","n">>
UNIT_H == <<"h">>
UNIT_D == <<"d">>
UNIT_M == <<"m">>
UNIT_Y == <<"y">>

\* x - 1 where x may be NaN
MinusOne(x) == IF x = NotANumber THEN NotANumber ELSE x - 1

\* The month-name branch of parseTimeFilter and everything after it.
parseNamedOrDated(timeFilter, filter, currentYear) ==
    LET names == Split(filter, "-")
        startName == MonthNameLookup(names[1])
        endName == MonthNameLookup(names[2])
        ym == Split(filter, "-")
        range == Split(filter, ",")
    IN IF /\ MatchesNameRange(filter)
          /\ startName # AbsentNum /\ endName # AbsentNum
       THEN Returned(TimeRange(NewLocalDate(currentYear, MinusOne(startName), 1),
                               NewLocalDate(currentYear, endName, 0)))
       ELSE IF MatchesYearMonthRange(filter)
       THEN Returned(TimeRange(NewLocalDate(parseInt(ym[1]), parseInt(ym[2]) - 1, 1),
                               NewLocalDate(parseInt(ym[3]), parseInt(ym[4]), 0)))
       ELSE IF MatchesRange(filter, 0)
       THEN Returned(TimeRange(DateOfText(range[1], <<0, 0, 0>>),
                               DateOfText(range[2], <<23, 59, 59>>)))
       ELSE IF MatchesRange(filter, 3)
       THEN Returned(TimeRange(
                DateOfText(SubSeq(range[1], 1, 10), ClockOfText(range[1], 0)),
                DateOfText(SubSeq(range[2], 1, 10), ClockOfText(range[2], 0))))
       ELSE IF MatchesRange(filter, 2)
       THEN Returned(TimeRange(
                DateOfText(SubSeq(range[1], 1, 10), ClockOfText(range[1], 0)),
                DateOfText(SubSeq(range[2], 1, 10), ClockOfText(range[2], 59))))
       ELSE IF MatchesRange(filter, 1)
       THEN Returned(TimeRange(
                DateOfText(SubSeq(range[1], 1, 10), ClockOfText(range[1], 0)),
                DateOfText(SubSeq(range[2], 1, 10), ClockOfText(range[2], 59))))
       ELSE Thrown(InvalidTimeFilter(timeFilter))

\* parseTimeFilter(timeFilter), called at the instant current (new Date()).
parseTimeFilter(timeFilter, current) ==
    IF ~TruthyStr(timeFilter) THEN Returned(Absent)
    ELSE
      LET currentYear == getFullYear(current)
          filter == toLowerCase(timeFilter)
          filterNoSpaces == RemoveSpaces(filter)
          months == Split(filterNoSpaces, "-")
      IN IF MatchesRelative(filterNoSpaces, UNIT_MIN)
         THEN Returned(TimeRange(
                  setMinutes(current, getMinutes(current)
                                        - RelativeCount(filterNoSpaces, UNIT_MIN)),
                  current))
         ELSE IF MatchesRelative(filterNoSpaces, UNIT_H)
         THEN Returned(TimeRange(
                  setHours(current, getHours(current)
                                      - RelativeCount(filterNoSpaces, UNIT_H)),
                  current))
         ELSE IF MatchesRelative(filterNoSpaces, UNIT_D)
         THEN Returned(TimeRange(
                  setDate(current, getDate(current)
                                     - RelativeCount(filterNoSpaces, UNIT_D)),
                  current))
         ELSE IF MatchesRelative(filterNoSpaces, UNIT_M)
         THEN Returned(TimeRange(
                  setMonth(current, getMonth(current)
                                      - RelativeCount(filterNoSpaces, UNIT_M)),
                  current))
         ELSE IF MatchesRelative(filterNoSpaces, UNIT_Y)
         THEN Returned(TimeRange(
                  setFullYear(current, getFullYear(current)
                                         - RelativeCount(filterNoSpaces, UNIT_Y)),
                  current))
         ELSE IF MatchesMonthRange(filterNoSpaces)
         THEN Returned(TimeRange(
                  NewLocalDate(currentYear, parseInt(months[1]) - 1, 1),
                  NewLocalDate(currentYear, parseInt(months[2]), 0)))
         ELSE parseNamedOrDated(timeFilter, filter, currentYear)

\* new Date(msg.timestamp) of a record's timestamp
DateOfTimestamp(timestamp) == IF timestamp = BadDate THEN InvalidDate ELSE timestamp

\* msg.timestamp is truthy: a string that is not empty.
HasTimestamp(msg) == msg.timestamp # AbsentNum

\* The callback of messages.filter in filterByTime.
InTimeRange(msg, timeRange) ==
    /\ HasTimestamp(msg)
    /\ DateGe(DateOfTimestamp(msg.timestamp), timeRange.start)
    /\ DateLe(DateOfTimestamp(msg.timestamp), timeRange.end)

filterByTime(msgs, timeFilter, current) ==
    IF ~TruthyStr(timeFilter) THEN Returned(msgs)
    ELSE LET timeRange == parseTimeFilter(timeFilter, current)
         IN IF "thrown" \in DOMAIN timeRange THEN timeRange
            ELSE IF timeRange.value = Absent THEN Returned(msgs)
            ELSE Returned(SelectSeq(msgs,
                              LAMBDA msg : InTimeRange(msg, timeRange.value)))

\* msg.project || ''
ProjectOrEmpty(msg) == IF TruthyStr(msg.project) THEN msg.project ELSE <<>>

filterByProject_caseSensitive(msgs, projectFilter) ==
    IF ~TruthyStr(projectFilter) THEN Returned(msgs)
    ELSE LET filter == toLowerCase(projectFilter)
         IN Returned(SelectSeq(msgs,
                LAMBDA msg : Includes(ProjectOrEmpty(msg), filter)))

filterByProject(msgs, projectFilter) ==
    IF ~TruthyStr(projectFilter) THEN Returned(msgs)
    ELSE LET filter == toLowerCase(projectFilter)
         IN Returned(SelectSeq(msgs,
                LAMBDA msg : Includes(toLowerCase(ProjectOrEmpty(msg)), filter)))

applyFilters(msgs, timeFilter, projectFilter, current) ==
    LET byTime == IF TruthyStr(timeFilter)
                  THEN filterByTime(msgs, timeFilter, current)
                  ELSE Returned(msgs)
    IN IF "thrown" \in DOMAIN byTime THEN byTime
       ELSE IF TruthyStr(projectFilter)
            THEN filterByProject(byTime.value, projectFilter)
            ELSE byTime

(***************************************************************************)
(* The filters, called on bounded inputs                                   *)
(***************************************************************************)
MaxMessages == 2

\* Instants of the inputs.
MARCH_31_NOON == MakeDate(2025, 2, 31, 12, 0, 0)
MARCH_15_MORNING == MakeDate(2024, 2, 15, 8, 30, 0)
Currents == {MARCH_31_NOON, MARCH_15_MORNING}

F_1MIN == <<"1","m","i","n">>
F_2H_SPACED == <<"2"," ","H">>
F_1D == <<"1","d">>
F_1M == <<"1","m">>
F_1Y == <<"1","y">>
F_NUMERIC_RANGE == <<"2","-","3">>
F_NAMED_RANGE == <<"F","e","b","-","M","a","r">>
F_YEAR_MONTH_RANGE == <<"2","0","2","5","-","2","-","2","0","2","5","-","3">>
F_DATE_RANGE == <<"2","0","2","5","-","0","3","-","0","1",",","2","0","2","5","-","0","3","-","3","1">>
F_SECONDS_RANGE == <<"2","0","2","5","-","0","3","-","3","1"," ","1","1",":","5","9",":","0","0",",","2","0","2","5","-","0","3","-","3","1","T","1","2",":","0","0",":","0","0">>
F_MINUTES_RANGE == <<"2","0","2","5","-","0","3","-","3","1"," ","1","1",":","5","9",",","2","0","2","5","-","0","3","-","3","1"," ","1","2",":","0","0">>
F_HOURS_RANGE == <<"2","0","2","5","-","0","3","-","3","1"," ","1","1",",","2","0","2","5","-","0","3","-","3","1"," ","1","2">>
F_BANANA == <<"b","a","n","a","n","a">>
F_NOT_MONTHS == <<"f","o","o","-","b","a","r">>
F_INHERITED == <<"c","o","n","s","t","r","u","c","t","o","r","-","c","o","n","s","t","r","u","c","t","o","r">>
F_BLANK == <<" ">>

RelativeFilters == {F_1MIN, F_2H_SPACED, F_1D, F_1M, F_1Y}
MonthRangeFilters == {F_NUMERIC_RANGE, F_NAMED_RANGE, F_YEAR_MONTH_RANGE}
DatedFilters == {F_DATE_RANGE, F_SECONDS_RANGE, F_MINUTES_RANGE, F_HOURS_RANGE}
UnsupportedFilters == {F_BANANA, F_NOT_MONTHS, F_INHERITED, F_BLANK}
NoFilters == {AbsentStr, <<>>}
TimeFilters ==
    RelativeFilters \cup MonthRangeFilters \cup DatedFilters
        \cup UnsupportedFilters \cup NoFilters

P_WEB == <<"M","y","W","e","b">>
P_API == <<"a","p","i">>
ProjectFilters == {<<"W","E","B">>, <<"w","e","b">>, <<"p">>, AbsentStr, <<>>}

\* A record as getUsage builds it, of the given instant and project.
Record(timestamp, project) ==
    [timestamp |-> timestamp, project |-> project,
     role |-> <<"a","s","s","i","s","t","a","n","t">>,
     inputTokens |-> 10, outputTokens |-> 2,
     cacheWriteTokens |-> 3, cacheReadTokens |-> 4,
     model |-> FALLBACK_PRICING[8].key, cost |-> 1]

Timestamps ==
    {AbsentNum, BadDate,
     MARCH_31_NOON + 1, MARCH_31_NOON, MARCH_31_NOON - SecondsPerMinute,
     MARCH_31_NOON - SecondsPerMinute - 1,
     MakeDate(2025, 2, 31, 0, 0, 0), MakeDate(2025, 2, 31, 0, 0, 1),
     MakeDate(2025, 2, 2, 12, 0, 0), MakeDate(2025, 1, 28, 12, 0, 0),
     MakeDate(2025, 1, 1, 0, 0, 0), MakeDate(2025, 0, 31, 23, 59, 59)}

TimedRecords == {Record(t, P_WEB) : t \in Timestamps}
ProjectRecords == {Record(MARCH_31_NOON, p) : p \in {P_WEB, P_API, AbsentStr, <<>>}}

SeqsUpTo(S, n) == UNION {[1 .. k -> S] : k \in 0 .. n}

FilterInit ==
    /\ PricingIdle
    /\ RunIdle
    /\ fnResult = NoResult
    /\ \/ /\ fnName = "parseTimeFilter"
          /\ fnArgs \in [timeFilter : TimeFilters, current : Currents]
       \/ /\ fnName = "filterByTime"
          /\ fnArgs \in [messages : SeqsUpTo(TimedRecords, MaxMessages),
                         timeFilter : TimeFilters, current : Currents]
       \/ /\ fnName = "filterByProject"
          /\ fnArgs \in [messages : SeqsUpTo(ProjectRecords, MaxMessages),
                         projectFilter : ProjectFilters]
       \/ /\ fnName = "applyFilters"
          /\ fnArgs \in [messages : SeqsUpTo(ProjectRecords, MaxMessages),
                         timeFilter : UnsupportedFilters \cup NoFilters \cup {F_1MIN},
                         projectFilter : ProjectFilters,
                         current : {MARCH_31_NOON}]

CallParseTimeFilter ==
    /\ fnName = "parseTimeFilter"
    /\ fnResult = NoResult
    /\ fnResult' = parseTimeFilter(fnArgs.timeFilter, fnArgs.current)
    /\ UNCHANGED <<fnName, fnArgs>>
    /\ UNCHANGED pricingVars
    /\ UNCHANGED runVars

CallFilterByTime ==
    /\ fnName = "filterByTime"
    /\ fnResult = NoResult
    /\ fnResult' = filterByTime(fnArgs.messages, fnArgs.timeFilter, fnArgs.current)
    /\ UNCHANGED <<fnName, fnArgs>>
    /\ UNCHANGED pricingVars
    /\ UNCHANGED runVars

CallFilterByProject ==
    /\ fnName = "filterByProject"
    /\ fnResult = NoResult
    /\ fnResult' = filterByProject(fnArgs.messages, fnArgs.projectFilter)
    /\ UNCHANGED <<fnName, fnArgs>>
    /\ UNCHANGED pricingVars
    /\ UNCHANGED runVars

CallApplyFilters ==
    /\ fnName = "applyFilters"
    /\ fnResult = NoResult
    /\ fnResult' = applyFilters(fnArgs.messages, fnArgs.timeFilter,
                                fnArgs.projectFilter, fnArgs.current)
    /\ UNCHANGED <<fnName, fnArgs>>
    /\ UNCHANGED pricingVars
    /\ UNCHANGED runVars

FilterNext ==
    \/ CallParseTimeFilter
    \/ CallFilterByTime
    \/ CallFilterByProject
    \/ CallApplyFilters

SpecFilter == FilterInit /\ [][FilterNext]_vars

FilterReturned == fnResult # NoResult /\ "value" \in DOMAIN fnResult
FilterThrew == fnResult # NoResult /\ "thrown" \in DOMAIN fnResult

\* The unit and the count of a relative filter.
RelativeUnits == {UNIT_MIN, UNIT_H, UNIT_D, UNIT_M, UNIT_Y}
UnitOf(timeFilter) ==
    CHOOSE u \in RelativeUnits :
        MatchesRelative(RemoveSpaces(toLowerCase(timeFilter)), u)
CountOf(timeFilter) ==
    RelativeCount(RemoveSpaces(toLowerCase(timeFilter)), UnitOf(timeFilter))

\* The instant n calendar months before t: the same time of day on the same
\* day of the month, or on the last day of that month when it is shorter.
MonthsBefore(t, n) ==
    LET month == getMonth(t) - n
        year == getFullYear(t) + (month \div 12)
        length == DaysInMonths(year)[(month % 12) + 1]
        date == IF getDate(t) > length THEN length ELSE getDate(t)
    IN MakeDay(year, month % 12, date) * SecondsPerDay + TimeWithinDay(t)

\* T minus N units
UnitsBefore(t, n, unit) ==
    CASE unit = UNIT_MIN -> t - n * SecondsPerMinute
      [] unit = UNIT_H -> t - n * SecondsPerHour
      [] unit = UNIT_D -> t - n * SecondsPerDay
      [] unit = UNIT_M -> MonthsBefore(t, n)
      [] unit = UNIT_Y -> MonthsBefore(t, 12 * n)

HasInstant(msg) == msg.timestamp # AbsentNum /\ msg.timestamp # BadDate

\* C11 (as claimed): filterByTime with a relative filter N<unit> evaluated at
\* the instant T keeps exactly the records whose timestamp t satisfies
\* T minus N units <= t <= T, both edges included, in input order; and no time
\* filter keeps a record without a timestamp.
C11_RelativeWindow ==
    (fnName = "filterByTime" /\ fnResult # NoResult) =>
        /\ fnArgs.timeFilter \in RelativeFilters =>
              /\ FilterReturned
              /\ fnResult.value =
                    SelectSeq(fnArgs.messages,
                        LAMBDA msg :
                            /\ HasInstant(msg)
                            /\ UnitsBefore(fnArgs.current, CountOf(fnArgs.timeFilter),
                                           UnitOf(fnArgs.timeFilter)) <= msg.timestamp
                            /\ msg.timestamp <= fnArgs.current)
        /\ (TruthyStr(fnArgs.timeFilter) /\ FilterReturned) =>
              \A i \in 1 .. Len(fnResult.value) : HasTimestamp(fnResult.value[i])

\* The year and the month (1 .. 12) that end a month-range filter.
EndMonthOf(timeFilter, current) ==
    LET filter == toLowerCase(timeFilter)
        parts == Split(RemoveSpaces(filter), "-")
    IN IF MatchesMonthRange(RemoveSpaces(filter))
       THEN [year |-> getFullYear(current), month |-> parseInt(parts[2])]
       ELSE IF MatchesNameRange(filter)
       THEN [year |-> getFullYear(current), month |-> MapGet(monthNames, parts[2])]
       ELSE [year |-> parseInt(parts[3]), month |-> parseInt(parts[4])]

\* t lies on the last day of that month, at any time of day.
OnLastDayOf(t, end) ==
    LET midnight == MakeDate(end.year, end.month - 1,
                             DaysInMonths(end.year)[end.month], 0, 0, 0)
    IN midnight <= t /\ t < midnight + SecondsPerDay

\* C12 (as claimed): for a month-range filter (numeric, named or cross-year)
\* the window runs through the last day of the end month: filterByTime keeps
\* every record timestamped at any time of day on that day.
C12_LastDayOfEndMonthKept ==
    (fnName = "filterByTime" /\ fnResult # NoResult
         /\ fnArgs.timeFilter \in MonthRangeFilters) =>
        /\ FilterReturned
        /\ \A i \in 1 .. Len(fnArgs.messages) :
              (/\ HasInstant(fnArgs.messages[i])
               /\ OnLastDayOf(fnArgs.messages[i].timestamp,
                              EndMonthOf(fnArgs.timeFilter, fnArgs.current)))
              => \E j \in 1 .. Len(fnResult.value) :
                     fnResult.value[j] = fnArgs.messages[i]

\* The string has one of the supported forms: a relative duration, a month
\* range in numbers or in month names, a year-month range, or a range of
\* dates with or without a time of day.
IsMonthName(name) == \E i \in 1 .. Len(monthNames) : monthNames[i].key = name

SupportedForm(timeFilter) ==
    LET filter == toLowerCase(timeFilter)
        filterNoSpaces == RemoveSpaces(filter)
    IN \/ \E u \in RelativeUnits : MatchesRelative(filterNoSpaces, u)
       \/ MatchesMonthRange(filterNoSpaces)
       \/ /\ MatchesNameRange(filter)
          /\ \A i \in 1 .. 2 : IsMonthName(Split(filter, "-")[i])
       \/ MatchesYearMonthRange(filter)
       \/ \E fields \in 0 .. 3 : MatchesRange(filter, fields)

\* C13 (as claimed): a non-empty time filter of no supported form makes
\* parseTimeFilter, and with it filterByTime and applyFilters, throw an error
\* that names the offending string and lists example formats; no filtered
\* result is returned.
C13_UnsupportedFilterThrows ==
    (/\ fnName \in {"parseTimeFilter", "filterByTime", "applyFilters"}
     /\ fnResult # NoResult
     /\ TruthyStr(fnArgs.timeFilter)
     /\ ~SupportedForm(fnArgs.timeFilter)) =>
        /\ FilterThrew
        /\ fnResult.thrown.offending = fnArgs.timeFilter
        /\ fnResult.thrown.examples # ""

\* Two characters that are equal up to the case of a letter.
SameLetter(a, b) ==
    \/ a = b
    \/ \E i \in 1 .. Len(UpperAlphabet) :
           {a, b} = {UpperAlphabet[i], LowerAlphabet[i]}

ContainsIgnoringCase(hay, needle) ==
    \E i \in 0 .. (Len(hay) - Len(needle)) :
        \A j \in 1 .. Len(needle) : SameLetter(hay[i + j], needle[j])

\* C14: filterByProject keeps exactly the records whose project name contains
\* the filter string, letters compared without regard to case, in input
\* order; without a project filter every record passes, and a record without
\* a project is dropped by every non-empty filter.  applyFilters with a
\* project filter alone gives the same list.
C14_ProjectFilter ==
    (/\ fnResult # NoResult
     /\ \/ fnName = "filterByProject"
        \/ fnName = "applyFilters" /\ ~TruthyStr(fnArgs.timeFilter)) =>
        /\ FilterReturned
        /\ fnResult.value =
              IF ~TruthyStr(fnArgs.projectFilter) THEN fnArgs.messages
              ELSE SelectSeq(fnArgs.messages,
                       LAMBDA msg :
                           /\ TruthyStr(msg.project)
                           /\ ContainsIgnoringCase(msg.project, fnArgs.projectFilter))

\* The filter WEB keeps the record of project MyWeb and drops the record
\* without a project that precedes it.
C14_Witness ==
    /\ fnName = "filterByProject"
    /\ fnResult # NoResult
    /\ fnArgs.projectFilter = <<"W","E","B">>
    /\ fnArgs.messages = <<Record(MARCH_31_NOON, AbsentStr), Record(MARCH_31_NOON, P_WEB)>>
    /\ fnResult = Returned(<<Record(MARCH_31_NOON, P_WEB)>>)

(***************************************************************************)
(* lib/aggregator.js : aggregateMessagesByProjectAndDate and               *)
(* aggregateMessagesByProject.  The aggregation Map is a table in          *)
(* insertion order, a Set of models a sequence without repetition.  A      *)
(* record without timestamp has the property undefined.                    *)
(***************************************************************************)
UNKNOWN_DATE == <<"u","n","k","n","o","w","n">>
KEY_SEPARATOR == <<"|","|">>
MODELS_SUFFIX == <<" ","m","o","d","e","l","s">>

RECURSIVE FormatNumber(_)
\* String(n) of a non-negative integer
FormatNumber(n) ==
    IF n < 10 THEN <<DecimalDigits[n + 1]>>
    ELSE FormatNumber(n \div 10) \o <<DecimalDigits[(n % 10) + 1]>>

RECURSIVE PadStart(_, _)
\* s.padStart(width, '0')
PadStart(s, width) == IF Len(s) >= width THEN s ELSE PadStart(<<"0">> \o s, width)

\* new Date(t).toISOString().split('T')[0] for a year of four digits
IsoDate(t) ==
    PadStart(FormatNumber(getFullYear(t)), 4) \o <<"-">>
        \o PadStart(FormatNumber(getMonth(t) + 1), 2) \o <<"-">>
        \o PadStart(FormatNumber(getDate(t)), 2)

\* new Date(timestamp) where timestamp may be undefined or unparseable
DateOfMaybe(timestamp) ==
    IF timestamp = AbsentNum \/ timestamp = BadDate THEN InvalidDate ELSE timestamp

DateGt(a, b) == a # InvalidDate /\ b # InvalidDate /\ a > b
DateLt(a, b) == a # InvalidDate /\ b # InvalidDate /\ a < b

\* toISOString of an invalid Date throws a RangeError.
ThrowsOnDate(msg) == HasTimestamp(msg) /\ DateOfMaybe(msg.timestamp) = InvalidDate

dateStr(msg) == IF HasTimestamp(msg) THEN IsoDate(msg.timestamp) ELSE UNKNOWN_DATE

ProjectDateKey_projectOnly(msg) == ProjectOrEmpty(msg)

\* `${project}||${dateStr}`
ProjectDateKey(msg) == ProjectOrEmpty(msg) \o KEY_SEPARATOR \o dateStr(msg)

\* aggregationMap.set(key, {...}) for a key the Map lacks
NewEntry(msg) ==
    [timestamp |-> msg.timestamp, project |-> msg.project, role |-> msg.role,
     inputTokens |-> 0, outputTokens |-> 0, cacheWriteTokens |-> 0,
     cacheReadTokens |-> 0, model |-> msg.model, cost |-> 0,
     messageCount |-> 0, models |-> <<>>,
     firstTimestamp |-> msg.timestamp, lastTimestamp |-> msg.timestamp]

Accumulate_skipsCacheRead(aggregated, msg) ==
    [aggregated EXCEPT
        !.inputTokens = @ + OrZero(msg.inputTokens),
        !.outputTokens = @ + OrZero(msg.outputTokens),
        !.cacheWriteTokens = @ + OrZero(msg.cacheWriteTokens),
        !.cost = @ + OrZero(msg.cost),
        !.messageCount = @ + 1,
        !.models = IF TruthyStr(msg.model) THEN SetAdd(@, msg.model) ELSE @]

\* The sums, the count and the Set of models, common to both functions.
Accumulate(aggregated, msg) ==
    [aggregated EXCEPT
        !.inputTokens = @ + OrZero(msg.inputTokens),
        !.outputTokens = @ + OrZero(msg.outputTokens),
        !.cacheWriteTokens = @ + OrZero(msg.cacheWriteTokens),
        !.cacheReadTokens = @ + OrZero(msg.cacheReadTokens),
        !.cost = @ + OrZero(msg.cost),
        !.messageCount = @ + 1,
        !.models = IF TruthyStr(msg.model) THEN SetAdd(@, msg.model) ELSE @]

LatestOfDay_keepFirst(aggregated, msg) == aggregated

\* "Update timestamp to the latest one for the day"
LatestOfDay(aggregated, msg) ==
    IF HasTimestamp(msg)
       /\ DateGt(DateOfMaybe(msg.timestamp), DateOfMaybe(aggregated.timestamp))
    THEN [aggregated EXCEPT !.timestamp = msg.timestamp]
    ELSE aggregated

\* "Update timestamps" of aggregateMessagesByProject
FirstAndLast(aggregated, msg) ==
    IF ~HasTimestamp(msg) THEN aggregated
    ELSE LET msgTime == DateOfMaybe(msg.timestamp)
             first == IF DateLt(msgTime, DateOfMaybe(aggregated.firstTimestamp))
                      THEN [aggregated EXCEPT !.firstTimestamp = msg.timestamp]
                      ELSE aggregated
         IN IF DateGt(msgTime, DateOfMaybe(first.lastTimestamp))
            THEN [first EXCEPT !.lastTimestamp = msg.timestamp,
                               !.timestamp = msg.timestamp]
            ELSE first

\* One turn of messages.forEach: the entry of the key is created if the Map
\* lacks it, then updated in place.
AggregateOne(map, msg, byDate) ==
    LET key == IF byDate THEN ProjectDateKey(msg) ELSE ProjectOrEmpty(msg)
        withKey == IF HasKey(map, key) THEN map
                   ELSE Append(map, [key |-> key, value |-> NewEntry(msg)])
        i == CHOOSE j \in 1 .. Len(withKey) : withKey[j].key = key
        summed == Accumulate(withKey[i].value, msg)
    IN [withKey EXCEPT ![i].value =
            IF byDate THEN LatestOfDay(summed, msg) ELSE FirstAndLast(summed, msg)]

RECURSIVE AggregateAll(_, _)
AggregateAll(msgs, byDate) ==
    IF msgs = <<>> THEN <<>>
    ELSE AggregateOne(AggregateAll(SubSeq(msgs, 1, Len(msgs) - 1), byDate),
                      msgs[Len(msgs)], byDate)

ModelLabel_firstModel(entry) ==
    IF Len(entry.models) >= 1 THEN entry.models[1] ELSE <<>>

\* "If multiple models were used, show count, otherwise show the model name"
ModelLabel(entry) ==
    IF Len(entry.models) > 1 THEN FormatNumber(Len(entry.models)) \o MODELS_SUFFIX
    ELSE IF Len(entry.models) = 1 THEN entry.models[1]
    ELSE <<>>

\* The row returned for an entry: the model label set, the helper
\* properties deleted.
RowOfEntry(entry) ==
    [timestamp |-> entry.timestamp, project |-> entry.project, role |-> entry.role,
     inputTokens |-> entry.inputTokens, outputTokens |-> entry.outputTokens,
     cacheWriteTokens |-> entry.cacheWriteTokens,
     cacheReadTokens |-> entry.cacheReadTokens,
     model |-> ModelLabel(entry), cost |-> entry.cost,
     messageCount |-> entry.messageCount]

RangeError == [name |-> "RangeError", message |-> "Invalid time value"]

RowsOf(map) == [i \in 1 .. Len(map) |-> RowOfEntry(map[i].value)]

aggregateMessagesByProjectAndDate(msgs) ==
    IF \E i \in 1 .. Len(msgs) : ThrowsOnDate(msgs[i]) THEN Thrown(RangeError)
    ELSE Returned(RowsOf(AggregateAll(msgs, TRUE)))

aggregateMessagesByProject(msgs) == Returned(RowsOf(AggregateAll(msgs, FALSE)))

(***************************************************************************)
(* The aggregator, called on bounded inputs                                *)
(***************************************************************************)
MaxRecords == 3

DAY_ONE_EARLY == MakeDate(2025, 2, 30, 0, 0, 0)
DAY_ONE_LATE == MakeDate(2025, 2, 30, 23, 59, 59)
DAY_TWO == MakeDate(2025, 2, 31, 0, 0, 0)

MODEL_SONNET == FALLBACK_PRICING[8].key
MODEL_OPUS == FALLBACK_PRICING[1].key
MODEL_HAIKU == FALLBACK_PRICING[10].key
P_SEPARATOR == <<"M","y","W","e","b","|","|","u","n","k","n","o","w","n">>

\* A record of the given instant, project and model; the token counts and
\* the cost differ from one record to the next.
UsageRecord(timestamp, project, model, n) ==
    [timestamp |-> timestamp, project |-> project,
     role |-> <<"a","s","s","i","s","t","a","n","t">>,
     inputTokens |-> n, outputTokens |-> 10 * n,
     cacheWriteTokens |-> 100 * n, cacheReadTokens |-> 1000 * n,
     model |-> model, cost |-> 10000 * n]

AggregatorRecords ==
    {UsageRecord(AbsentNum, P_WEB, MODEL_SONNET, 1),
     UsageRecord(DAY_ONE_EARLY, P_WEB, MODEL_SONNET, 2),
     UsageRecord(DAY_ONE_LATE, P_WEB, MODEL_OPUS, 3),
     UsageRecord(DAY_ONE_EARLY, P_WEB, MODEL_HAIKU, 3),
     UsageRecord(DAY_ONE_LATE, P_WEB, AbsentStr, 4),
     UsageRecord(DAY_TWO, P_WEB, MODEL_SONNET, 5),
     UsageRecord(DAY_ONE_EARLY, P_API, MODEL_OPUS, 6),
     UsageRecord(DAY_ONE_LATE, P_API, AbsentStr, 7),
     UsageRecord(AbsentNum, P_API, AbsentStr, 8),
     UsageRecord(DAY_ONE_EARLY, AbsentStr, MODEL_SONNET, 9),
     UsageRecord(DAY_ONE_EARLY, P_SEPARATOR, MODEL_SONNET, 1),
     UsageRecord(AbsentNum, P_SEPARATOR, MODEL_OPUS, 2)}

AggregateInit ==
    /\ PricingIdle
    /\ RunIdle
    /\ fnResult = NoResult
    /\ fnName \in {"aggregateMessagesByProjectAndDate", "aggregateMessagesByProject"}
    /\ fnArgs \in [messages : SeqsUpTo(AggregatorRecords, MaxRecords)]

CallAggregateByProjectAndDate ==
    /\ fnName = "aggregateMessagesByProjectAndDate"
    /\ fnResult = NoResult
    /\ fnResult' = aggregateMessagesByProjectAndDate(fnArgs.messages)
    /\ UNCHANGED <<fnName, fnArgs>>
    /\ UNCHANGED pricingVars
    /\ UNCHANGED runVars

CallAggregateByProject ==
    /\ fnName = "aggregateMessagesByProject"
    /\ fnResult = NoResult
    /\ fnResult' = aggregateMessagesByProject(fnArgs.messages)
    /\ UNCHANGED <<fnName, fnArgs>>
    /\ UNCHANGED pricingVars
    /\ UNCHANGED runVars

AggregateNext ==
    \/ CallAggregateByProjectAndDate
    \/ CallAggregateByProject

SpecAggregate == AggregateInit /\ [][AggregateNext]_vars

AggregatedByDate ==
    fnName = "aggregateMessagesByProjectAndDate" /\ fnResult # NoResult
AggregatedByProject ==
    fnName = "aggregateMessagesByProject" /\ fnResult # NoResult

\* The group of a record: its project and the UTC day of its timestamp,
\* AbsentNum for a record without timestamp.
GroupOf(msg) ==
    [project |-> ProjectOrEmpty(msg),
     day |-> IF HasTimestamp(msg) THEN Day(msg.timestamp) ELSE AbsentNum]

SummedFields ==
    {"inputTokens", "outputTokens", "cacheWriteTokens", "cacheReadTokens", "cost"}

\* The sum of a field over the records of a list that belong to a group
SumOfGroup(msgs, field, group) ==
    SumTo([i \in 1 .. Len(msgs) |->
              IF GroupOf(msgs[i]) = group THEN msgs[i][field] ELSE 0], Len(msgs))

SumOfAll(rows, field) == SumTo([i \in 1 .. Len(rows) |-> rows[i][field]], Len(rows))

CountOfGroup(msgs, group) ==
    Cardinality({i \in 1 .. Len(msgs) : GroupOf(msgs[i]) = group})

Permuted(msgs, p) == [i \in 1 .. Len(msgs) |-> msgs[p[i]]]

\* Two rows of the same group with the same sums, count, representative
\* timestamp and model label
SameAggregate(a, b) ==
    /\ GroupOf(a) = GroupOf(b)
    /\ \A field \in SummedFields : a[field] = b[field]
    /\ a.messageCount = b.messageCount
    /\ a.timestamp = b.timestamp
    /\ a.model = b.model

SetMax(S) == CHOOSE m \in S : \A n \in S : m >= n

\* The timestamps of the records that share the project of a record and, in
\* the aggregation by project and date, its day.
TimestampsOfGroup(msgs, msg, byDate) ==
    {msgs[i].timestamp : i \in {k \in 1 .. Len(msgs) :
        /\ HasTimestamp(msgs[k])
        /\ IF byDate THEN GroupOf(msgs[k]) = GroupOf(msg)
           ELSE ProjectOrEmpty(msgs[k]) = ProjectOrEmpty(msg)}}

\* Some row of the record's group carries the maximum timestamp of the group.
GroupHasLatest(rows, msgs, msg, byDate) ==
    \E j \in 1 .. Len(rows) :
        /\ ProjectOrEmpty(rows[j]) = ProjectOrEmpty(msg)
        /\ rows[j].timestamp = SetMax(TimestampsOfGroup(msgs, msg, byDate))

ModelsOfRow(msgs, row, byDate) ==
    {msgs[i].model : i \in {k \in 1 .. Len(msgs) :
        /\ TruthyStr(msgs[k].model)
        /\ IF byDate THEN GroupOf(msgs[k]) = GroupOf(row)
           ELSE ProjectOrEmpty(msgs[k]) = ProjectOrEmpty(row)}}

\* C18: the model of each aggregated row is the model name when one distinct
\* model occurs among the records of its group, the text '<n> models' when
\* n > 1 distinct models occur, and the empty string when none has a model.
C18_ModelLabel ==
    (AggregatedByDate \/ AggregatedByProject) =>
        \A j \in 1 .. Len(fnResult.value) :
            LET models == ModelsOfRow(fnArgs.messages, fnResult.value[j],
                                      fnName = "aggregateMessagesByProjectAndDate")
                n == Cardinality(models)
            IN /\ n = 0 => fnResult.value[j].model = <<>>
               /\ n = 1 => fnResult.value[j].model \in models
               /\ n > 1 => fnResult.value[j].model = FormatNumber(n) \o MODELS_SUFFIX

\* Three records of MyWeb on March 30 with three models make one row labelled
\* '3 models'.
C18_Witness ==
    /\ AggregatedByDate
    /\ fnArgs.messages = <<UsageRecord(DAY_ONE_EARLY, P_WEB, MODEL_SONNET, 2),
                           UsageRecord(DAY_ONE_LATE, P_WEB, MODEL_OPUS, 3),
                           UsageRecord(DAY_ONE_EARLY, P_WEB, MODEL_HAIKU, 3)>>
    /\ Len(fnResult.value) = 1
    /\ fnResult.value[1].model = <<"3"," ","m","o","d","e","l","s">>

\* The indices of the records that are the first of their group, and the
\* j-th of them in input order
FirstSeen(msgs) ==
    {i \in 1 .. Len(msgs) :
        \A k \in 1 .. (i - 1) : GroupOf(msgs[k]) # GroupOf(msgs[i])}

NthOf(S, j) == CHOOSE x \in S : Cardinality({y \in S : y < x}) = j - 1

\* C19: aggregateMessagesByProjectAndDate returns one row per distinct key
\* (project, UTC day of the timestamp), the records of a project without
\* timestamp sharing one row; two records fall in the same row exactly when
\* their keys are equal, and the rows come in the order in which their keys
\* were first seen in the input.
C19_OneRowPerKeyInFirstSeenOrder ==
    AggregatedByDate =>
        /\ FilterReturned
        /\ Len(fnResult.value) = Cardinality(FirstSeen(fnArgs.messages))
        /\ \A j \in 1 .. Len(fnResult.value) :
              LET first == fnArgs.messages[NthOf(FirstSeen(fnArgs.messages), j)]
              IN /\ GroupOf(fnResult.value[j]) = GroupOf(first)
                 /\ fnResult.value[j].messageCount =
                        CountOfGroup(fnArgs.messages, GroupOf(first))

\* Two records of MyWeb without timestamp around one of March 30: the row of
\* the unknown date comes first and counts both, the row of March 30 second.
C19_Witness ==
    /\ AggregatedByDate
    /\ fnArgs.messages = <<UsageRecord(AbsentNum, P_WEB, MODEL_SONNET, 1),
                           UsageRecord(DAY_ONE_LATE, P_WEB, MODEL_OPUS, 3),
                           UsageRecord(AbsentNum, P_WEB, MODEL_SONNET, 1)>>
    /\ Len(fnResult.value) = 2
    /\ fnResult.value[1].timestamp = AbsentNum
    /\ fnResult.value[1].messageCount = 2
    /\ fnResult.value[2].timestamp = DAY_ONE_LATE

(***************************************************************************)
(* lib/sorter.js : sortMessages.  Arrays live in a heap, a sequence of     *)
(* arrays; a reference to an array is its index in the heap.  An argument  *)
(* that is given is Given(v), one that is left out (undefined) is Absent.  *)
(***************************************************************************)
VALID_FIELDS == <<"cost", "time", "tokens", "project">>
VALID_ORDERS == <<"asc", "desc">>

Given(v) == [given |-> v]

\* VALID_FIELDS.includes(v)
ArrayIncludes(array, v) == \E i \in 1 .. Len(array) : array[i] = v

InvalidSortField_namesDefault(sortField) ==
    [name |-> "Error", message |-> "Invalid sort field: ",
     offending |-> "time", valid |-> VALID_FIELDS]

InvalidSortField(sortField) ==
    [name |-> "Error", message |-> "Invalid sort field: ",
     offending |-> sortField, valid |-> VALID_FIELDS]

InvalidSortOrder(sortOrder) ==
    [name |-> "Error", message |-> "Invalid sort order: ",
     offending |-> sortOrder, valid |-> VALID_ORDERS]

\* new Date(message.timestamp || 0).getTime()
TimeValue(message) ==
    IF HasTimestamp(message) THEN DateOfMaybe(message.timestamp) ELSE 0

getSortValue(message, sortField) ==
    CASE sortField = "cost" -> OrZero(message.cost)
      [] sortField = "time" -> TimeValue(message)
      [] sortField = "tokens" ->
            OrZero(message.inputTokens) + OrZero(message.outputTokens)
                + OrZero(message.cacheWriteTokens) + OrZero(message.cacheReadTokens)
      [] sortField = "project" -> toLowerCase(ProjectOrEmpty(message))
      [] OTHER -> 0

\* The order of characters in the collation of localeCompare: white space,
\* punctuation and symbols, digits, letters.
Collation ==
    <<" ", "-", "|">> \o DecimalDigits \o LowerAlphabet

CollationRank(c) == CHOOSE i \in 1 .. Len(Collation) : Collation[i] = c

RECURSIVE localeCompare(_, _)
\* a.localeCompare(b) of two strings in lower case: negative, 0 or positive
localeCompare(a, b) ==
    IF a = <<>> /\ b = <<>> THEN 0
    ELSE IF a = <<>> THEN -1
    ELSE IF b = <<>> THEN 1
    ELSE IF CollationRank(a[1]) < CollationRank(b[1]) THEN -1
    ELSE IF CollationRank(a[1]) > CollationRank(b[1]) THEN 1
    ELSE localeCompare(Tail(a), Tail(b))

compareValues_alwaysAscending(valueA, valueB, sortOrder, isString) ==
    IF isString THEN localeCompare(valueA, valueB) ELSE valueA - valueB

\* compareValues(valueA, valueB, sortOrder); isString: both values are strings
compareValues(valueA, valueB, sortOrder, isString) ==
    IF isString
    THEN IF sortOrder = "asc" THEN localeCompare(valueA, valueB)
         ELSE 0 - localeCompare(valueA, valueB)
    ELSE IF sortOrder = "asc" THEN valueA - valueB ELSE valueB - valueA

\* The comparator handed to Array.prototype.sort
Comparator(a, b, sortField, sortOrder) ==
    compareValues(getSortValue(a, sortField), getSortValue(b, sortField),
                  sortOrder, sortField = "project")

RECURSIVE InsertSorted(_, _, _, _)
\* x put into a sorted array behind every element that does not follow it
InsertSorted(sorted, x, sortField, sortOrder) ==
    IF sorted = <<>> THEN <<x>>
    ELSE IF Comparator(sorted[Len(sorted)], x, sortField, sortOrder) <= 0
    THEN Append(sorted, x)
    ELSE Append(InsertSorted(SubSeq(sorted, 1, Len(sorted) - 1), x,
                             sortField, sortOrder),
                sorted[Len(sorted)])

RECURSIVE StableSort(_, _, _)
\* Array.prototype.sort with a comparator: a stable sort
StableSort(array, sortField, sortOrder) ==
    IF array = <<>> THEN <<>>
    ELSE InsertSorted(StableSort(SubSeq(array, 1, Len(array) - 1),
                                 sortField, sortOrder),
                      array[Len(array)], sortField, sortOrder)

\* A default parameter: the default replaces an argument that is undefined.
OrDefault(arg, default) == IF arg = Absent THEN default ELSE arg.given

sortMessages_inPlace(heap, ref, sortFieldArg, sortOrderArg) ==
    LET sortField == OrDefault(sortFieldArg, "time")
        sortOrder == OrDefault(sortOrderArg, "desc")
    IN IF ~ArrayIncludes(VALID_FIELDS, sortField)
       THEN [heap |-> heap, result |-> Thrown(InvalidSortField(sortField))]
       ELSE IF ~ArrayIncludes(VALID_ORDERS, sortOrder)
       THEN [heap |-> heap, result |-> Thrown(InvalidSortOrder(sortOrder))]
       ELSE [heap |-> [heap EXCEPT ![ref] = StableSort(@, sortField, sortOrder)],
             result |-> Returned(ref)]

\* sortMessages(messages, sortField = 'time', sortOrder = 'desc'): the heap
\* after the call and what the call returns, the reference of the sorted copy.
sortMessages(heap, ref, sortFieldArg, sortOrderArg) ==
    LET sortField == OrDefault(sortFieldArg, "time")
        sortOrder == OrDefault(sortOrderArg, "desc")
    IN IF ~ArrayIncludes(VALID_FIELDS, sortField)
       THEN [heap |-> heap, result |-> Thrown(InvalidSortField(sortField))]
       ELSE IF ~ArrayIncludes(VALID_ORDERS, sortOrder)
       THEN [heap |-> heap, result |-> Thrown(InvalidSortOrder(sortOrder))]
       ELSE [heap |-> Append(heap, StableSort(heap[ref], sortField, sortOrder)),
             result |-> Returned(Len(heap) + 1)]

(***************************************************************************)
(* The sorter, called on bounded inputs                                    *)
(***************************************************************************)
MaxSorted == 3

P_WEB_LOWER == <<"m","y","w","e","b">>

SortRecords ==
    {UsageRecord(DAY_ONE_EARLY, P_WEB, MODEL_SONNET, 2),
     [UsageRecord(DAY_TWO, P_API, MODEL_OPUS, 1) EXCEPT !.cost = 50000],
     [UsageRecord(AbsentNum, AbsentStr, AbsentStr, 3) EXCEPT !.cost = AbsentNum],
     UsageRecord(DAY_ONE_LATE, P_WEB_LOWER, MODEL_SONNET, 2)}

SortFieldArgs == {Given(f) : f \in {"cost", "time", "tokens", "project", "size"}} \cup {Absent}
SortOrderArgs == {Given(o) : o \in {"asc", "desc", "up"}} \cup {Absent}

SortInit ==
    /\ PricingIdle
    /\ RunIdle
    /\ fnResult = NoResult
    /\ fnName = "sortMessages"
    /\ \E array \in SeqsUpTo(SortRecords, MaxSorted) :
          fnArgs \in [heap : {<<array>>}, messages : {1},
                      sortField : SortFieldArgs, sortOrder : SortOrderArgs]

\* The call: fnArgs.heap becomes the heap after the call.
CallSortMessages ==
    /\ fnName = "sortMessages"
    /\ fnResult = NoResult
    /\ LET call == sortMessages(fnArgs.heap, fnArgs.messages,
                                fnArgs.sortField, fnArgs.sortOrder)
       IN /\ fnArgs' = [fnArgs EXCEPT !.heap = call.heap]
          /\ fnResult' = call.result
    /\ UNCHANGED fnName
    /\ UNCHANGED pricingVars
    /\ UNCHANGED runVars

SortNext == CallSortMessages

SpecSort == SortInit /\ [][SortNext]_vars

SortAccepted == fnName = "sortMessages" /\ fnResult # NoResult /\ "value" \in DOMAIN fnResult
SortRejected == fnName = "sortMessages" /\ fnResult # NoResult /\ "thrown" \in DOMAIN fnResult

\* C20: sortMessages never mutates its input: after any call, accepted or
\* rejected, the caller's array holds the same records in the same order, and
\* an accepted call returns a different array.
C20_InputNotMutated ==
    [][(fnName = "sortMessages" /\ fnResult = NoResult /\ fnResult' # NoResult) =>
          /\ fnArgs'.heap[fnArgs.messages] = fnArgs.heap[fnArgs.messages]
          /\ "value" \in DOMAIN fnResult' => fnResult'.value # fnArgs.messages]_vars

\* An accepted call by cost, descending, on an array in ascending order: the
\* caller's array is still ascending and the returned array is its reverse.
C20_Witness ==
    /\ SortAccepted
    /\ fnArgs.sortField = Given("cost") /\ fnArgs.sortOrder = Given("desc")
    /\ Len(fnArgs.heap[fnArgs.messages]) = 2
    /\ fnArgs.heap[fnArgs.messages][1].cost = 20000
    /\ fnArgs.heap[fnArgs.messages][2].cost = 50000
    /\ fnArgs.heap[fnResult.value][1].cost = 50000
    /\ fnArgs.heap[fnResult.value][2].cost = 20000

\* The key of a record under a sort field, as the documentation of the sorter
\* gives it: a missing cost counts as 0, a missing timestamp as the epoch,
\* tokens are the sum of the four token counts, a project name is compared
\* without regard to case.
SortKey(message, field) ==
    CASE field = "cost" -> IF message.cost = AbsentNum THEN 0 ELSE message.cost
      [] field = "time" ->
            IF message.timestamp = AbsentNum THEN 0 ELSE message.timestamp
      [] field = "tokens" ->
            message.inputTokens + message.outputTokens
                + message.cacheWriteTokens + message.cacheReadTokens
      [] field = "project" ->
            IF message.project = AbsentStr THEN <<>>
            ELSE toLowerCase(message.project)

\* key a does not follow key b
KeyLe(a, b, field) ==
    IF field = "project" THEN localeCompare(a, b) <= 0 ELSE a <= b

IsPermutationOf(result, array) ==
    /\ Len(result) = Len(array)
    /\ \E p \in [1 .. Len(array) -> 1 .. Len(array)] :
          /\ \A i, j \in 1 .. Len(array) : i # j => p[i] # p[j]
          /\ result = Permuted(array, p)

NoEqualKeys(array, field) ==
    \A i, j \in 1 .. Len(array) :
        i # j => SortKey(array[i], field) # SortKey(array[j], field)

ReverseOf(array) == [i \in 1 .. Len(array) |-> array[Len(array) + 1 - i]]

\* What sortMessages returns for an array, a valid field and a valid order
SortedBy(array, field, order) ==
    LET call == sortMessages(<<array>>, 1, Given(field), Given(order))
    IN call.heap[call.result.value]

\* C21: for each valid field an accepted call of sortMessages returns a
\* permutation of its input whose keys (cost, missing as 0; time, missing as
\* the epoch; tokens, the sum of the four counts; project, ignoring case) are
\* non-decreasing for 'asc' and non-increasing for 'desc'; on an input without
\* equal keys the 'desc' result is the exact reverse of the 'asc' result.
C21_SortedPermutation ==
    SortAccepted =>
        LET array == fnArgs.heap[fnArgs.messages]
            result == fnArgs.heap[fnResult.value]
            field == OrDefault(fnArgs.sortField, "time")
            order == OrDefault(fnArgs.sortOrder, "desc")
        IN /\ IsPermutationOf(result, array)
           /\ \A i \in 1 .. (Len(result) - 1) :
                 IF order = "asc"
                 THEN KeyLe(SortKey(result[i], field), SortKey(result[i + 1], field), field)
                 ELSE KeyLe(SortKey(result[i + 1], field), SortKey(result[i], field), field)
           /\ NoEqualKeys(array, field) =>
                 SortedBy(array, field, "desc") = ReverseOf(SortedBy(array, field, "asc"))

\* Three records sorted by time, descending: the record without timestamp,
\* keyed as the epoch, comes last, behind April 1 and March 30.
C21_Witness ==
    /\ SortAccepted
    /\ fnArgs.sortField = Given("time") /\ fnArgs.sortOrder = Given("desc")
    /\ Len(fnArgs.heap[fnArgs.messages]) = 3
    /\ fnArgs.heap[fnArgs.messages][1].timestamp = AbsentNum
    /\ fnArgs.heap[fnArgs.messages][2].timestamp = DAY_ONE_EARLY
    /\ fnArgs.heap[fnArgs.messages][3].timestamp = DAY_TWO
    /\ fnArgs.heap[fnResult.value][1].timestamp = DAY_TWO
    /\ fnArgs.heap[fnResult.value][2].timestamp = DAY_ONE_EARLY
    /\ fnArgs.heap[fnResult.value][3].timestamp = AbsentNum

\* C22: a call of sortMessages with a field or an order that is given and is
\* not one of the allowed values is rejected before anything is sorted: no
\* array is made, the caller's array is as it was, and the error names the
\* value that was given and lists the allowed values.  A value that is given
\* is never replaced by the default, and when field and order are both
\* invalid the error is about the field.  A call with valid or omitted
\* arguments is accepted.
C22_InvalidArgumentsRejected ==
    (fnName = "sortMessages" /\ fnResult # NoResult) =>
        LET badField == fnArgs.sortField # Absent
                          /\ fnArgs.sortField.given \notin {"cost", "time", "tokens", "project"}
            badOrder == fnArgs.sortOrder # Absent
                          /\ fnArgs.sortOrder.given \notin {"asc", "desc"}
        IN /\ SortRejected <=> (badField \/ badOrder)
           /\ SortRejected => /\ Len(fnArgs.heap) = 1
                              /\ fnResult.thrown.name = "Error"
           /\ badField =>
                 /\ fnResult.thrown.message = "Invalid sort field: "
                 /\ fnResult.thrown.offending = fnArgs.sortField.given
                 /\ fnResult.thrown.valid = <<"cost", "time", "tokens", "project">>
           /\ (badOrder /\ ~badField) =>
                 /\ fnResult.thrown.message = "Invalid sort order: "
                 /\ fnResult.thrown.offending = fnArgs.sortOrder.given
                 /\ fnResult.thrown.valid = <<"asc", "desc">>

\* A call with field 'size' and order 'up' on two records: the error is about
\* the field 'size', and no array was made.
C22_Witness ==
    /\ SortRejected
    /\ fnArgs.sortField = Given("size") /\ fnArgs.sortOrder = Given("up")
    /\ Len(fnArgs.heap[fnArgs.messages]) = 2
    /\ Len(fnArgs.heap) = 1
    /\ fnResult.thrown.offending = "size"

(***************************************************************************)
(* bin/cli.js : the entry of the program and showUsage, from the outcome   *)
(* of getUsage to what is printed.  argv holds what the user typed: an     *)
(* option left out is AbsentStr (time, project), Absent (sort, order) or   *)
(* FALSE (the flags).  detected is the project name that                   *)
(* detectCurrentProject finds in the working directory, AbsentStr if none. *)
(***************************************************************************)
ConfigurationNotFound ==
    [name |-> "DetailedError", message |-> "Claude Code configuration not found!"]

\* process.argv.slice(2).length === 0
NoArguments(argv) ==
    /\ argv.time = AbsentStr /\ argv.project = AbsentStr
    /\ argv.sort = Absent /\ argv.order = Absent
    /\ ~argv.detailed /\ ~argv.all

\* The object {} of line 53
EmptyOptions ==
    [time |-> AbsentStr, project |-> AbsentStr, sort |-> Absent, order |-> Absent,
     detailed |-> FALSE, all |-> FALSE, autoDetectedProject |-> FALSE]

\* program.parse: the options as commander hands them to the action, sort and
\* order with their defaults 'time' and 'desc'
CommanderOptions(argv) ==
    [time |-> argv.time, project |-> argv.project,
     sort |-> Given(OrDefault(argv.sort, "time")),
     order |-> Given(OrDefault(argv.order, "desc")),
     detailed |-> argv.detailed, all |-> argv.all, autoDetectedProject |-> FALSE]

getProjectAwareOptions(options, detected) ==
    IF options.all THEN [options EXCEPT !.all = FALSE]
    ELSE IF TruthyStr(options.project) THEN options
    ELSE IF TruthyStr(detected)
    THEN [options EXCEPT !.project = detected, !.autoDetectedProject = TRUE]
    ELSE options

\* The options showUsage is called with (lines 32-58)
EntryOptions(argv, detected) ==
    IF NoArguments(argv)
    THEN getProjectAwareOptions(EmptyOptions, detected)
    ELSE getProjectAwareOptions(CommanderOptions(argv), detected)

\* The catch of showUsage prints the message of the error and returns.
Caught(options, e) ==
    [options |-> options, output |-> "error", printed |-> e, rows |-> <<>>,
     rejected |-> FALSE]

\* The rows are printed as a table, or the notice that there are none.
Rendered(options, rows) ==
    [options |-> options,
     output |-> IF Len(rows) > 0 THEN "table" ELSE "nomessages",
     printed |-> Absent, rows |-> rows, rejected |-> FALSE]

\* if (options.sort)
SortRequested(options) == options.sort # Absent /\ options.sort.given # ""

\* What sortMessages gave: the error is caught, or the sorted copy is shown.
SortedAndRendered(options, call) ==
    IF "thrown" \in DOMAIN call.result
    THEN Caught(options, call.result.thrown)
    ELSE Rendered(options, call.heap[call.result.value])

\* Lines 83-86 and on: the rows are sorted if a sort field is set, and shown.
SortAndRender(options, finalMessages) ==
    IF "thrown" \in DOMAIN finalMessages
    THEN Caught(options, finalMessages.thrown)
    ELSE IF ~SortRequested(options)
    THEN Rendered(options, finalMessages.value)
    ELSE SortedAndRendered(options,
             sortMessages(<<finalMessages.value>>, 1, options.sort, options.order))

\* Lines 73-81: the detailed view keeps the records, the default view
\* aggregates them by project and day.
AggregateAndRender(options, filteredMessages) ==
    IF "thrown" \in DOMAIN filteredMessages
    THEN Caught(options, filteredMessages.thrown)
    ELSE SortAndRender(options,
             IF options.detailed THEN filteredMessages
             ELSE aggregateMessagesByProjectAndDate(filteredMessages.value))

\* showUsage(options), usage being what getUsage returns or throws and
\* current the time of the run
showUsage(options, usage, current) ==
    IF "thrown" \in DOMAIN usage THEN Caught(options, usage.thrown)
    ELSE AggregateAndRender(options,
             applyFilters(usage.value, options.time, options.project, current))

\* The exit status of the process: 1 when the promise of the run is rejected
\* and nobody handles it, 0 when the event loop runs empty.
ExitStatus(run) == IF run.rejected THEN 1 ELSE 0

(***************************************************************************)
(* Runs of the program on bounded inputs: what the user typed, what        *)
(* getUsage gave, at noon of March 31, 2025                                *)
(***************************************************************************)
MaxReported == 3

\* n cents in units of 1e-8 USD
Cents(n) == n * 1000000

FIVE_CENTS_WEB ==
    [UsageRecord(DAY_ONE_EARLY, P_WEB, MODEL_SONNET, 1) EXCEPT !.cost = Cents(5)]
TEN_CENTS_WEB ==
    [UsageRecord(DAY_TWO, P_WEB, MODEL_OPUS, 2) EXCEPT !.cost = Cents(10)]
TWO_CENTS_API ==
    [UsageRecord(DAY_ONE_LATE, P_API, MODEL_SONNET, 3) EXCEPT !.cost = Cents(2)]

ReportRecords == {FIVE_CENTS_WEB, TEN_CENTS_WEB, TWO_CENTS_API}

UsageOutcomes ==
    {Thrown(ConfigurationNotFound)}
        \cup {Returned(msgs) : msgs \in SeqsUpTo(ReportRecords, MaxReported)}

Arguments ==
    [time : {AbsentStr, F_1D, F_BANANA},
     project : {AbsentStr, P_WEB},
     sort : {Absent, Given("cost"), Given("time"), Given("size")},
     order : {Absent, Given("asc"), Given("desc"), Given("up")},
     detailed : BOOLEAN,
     all : BOOLEAN]

ReportInit ==
    /\ PricingIdle
    /\ RunIdle
    /\ fnResult = NoResult
    /\ fnName = "showUsage"
    /\ \E argv \in Arguments, detected \in {AbsentStr, P_API},
          usage \in UsageOutcomes :
          fnArgs = [argv |-> argv, detected |-> detected, usage |-> usage,
                    current |-> MARCH_31_NOON]

\* The program runs: the entry makes the options, showUsage reports.
RunCli ==
    /\ fnName = "showUsage"
    /\ fnResult = NoResult
    /\ fnResult' = showUsage(EntryOptions(fnArgs.argv, fnArgs.detected),
                             fnArgs.usage, fnArgs.current)
    /\ UNCHANGED <<fnName, fnArgs>>
    /\ UNCHANGED pricingVars
    /\ UNCHANGED runVars

ReportNext == RunCli

SpecReport == ReportInit /\ [][ReportNext]_vars

Reported == fnName = "showUsage" /\ fnResult # NoResult

\* C23 (as claimed): a run whose configuration file is absent, or whose time
\* filter or sort field or order is invalid, prints explanatory text, prints
\* no table, and ends with a non-zero exit status.
C23_ErrorsEndNonZero ==
    (/\ Reported
     /\ \/ fnArgs.usage = Thrown(ConfigurationNotFound)
        \/ fnArgs.argv.time = F_BANANA
        \/ fnArgs.argv.sort = Given("size")
        \/ fnArgs.argv.order = Given("up")) =>
        /\ fnResult.output = "error"
        /\ fnResult.printed # Absent
        /\ fnResult.rows = <<>>
        /\ ExitStatus(fnResult) # 0

\* C24 (as claimed): whenever the user gives no sort option, also when the
\* program is run without any argument, the rows come in the order of the
\* same run with '-s time -o desc'.
C24_DefaultSortIsTimeDescending ==
    (Reported /\ fnArgs.argv.sort = Absent /\ fnArgs.argv.order = Absent) =>
        fnResult.rows =
            showUsage(EntryOptions([fnArgs.argv EXCEPT !.sort = Given("time"),
                                                       !.order = Given("desc")],
                                   fnArgs.detected),
                      fnArgs.usage, fnArgs.current).rows

\* The record passes the filters of the run: it lies in the last day before
\* the run when the time filter is '1d', and its project name contains the
\* project filter in effect, ignoring case.
PassesFilters(msg, options, current) ==
    /\ options.time = F_1D =>
          /\ HasInstant(msg)
          /\ current - SecondsPerDay <= msg.timestamp
          /\ msg.timestamp <= current
    /\ options.project # AbsentStr =>
          /\ msg.project # AbsentStr
          /\ ContainsIgnoringCase(msg.project, options.project)

\* sort(aggregate(filter(records))), or sort(filter(records)) in the detailed
\* view, by the given field and order
SortedViewOf(records, options, current, field, order) ==
    LET kept == SelectSeq(records, LAMBDA msg : PassesFilters(msg, options, current))
    IN SortedBy(IF options.detailed THEN kept
                ELSE aggregateMessagesByProjectAndDate(kept).value,
                field, order)

\* C25 (as claimed): the rows handed to rendering are
\* sort(aggregate(filter(records))) in the default view and
\* sort(filter(records)) in the detailed view, the sort being by the field and
\* order of the run, 'time' and 'desc' when the user gives none: no record
\* that a filter rejects contributes to a row, and a sort by cost orders the
\* aggregated rows by their summed cost.
C25_RowsAreSortedViewOfFiltered ==
    (Reported /\ fnResult.output # "error") =>
        fnResult.rows =
            SortedViewOf(fnArgs.usage.value, fnResult.options, fnArgs.current,
                         OrDefault(fnArgs.argv.sort, "time"),
                         OrDefault(fnArgs.argv.order, "desc"))

\* The same for the runs that have at least one argument, whose options
\* commander parses
RowsAreSortedViewWhenParsed ==
    (Reported /\ fnResult.output # "error" /\ ~NoArguments(fnArgs.argv)) =>
        fnResult.rows =
            SortedViewOf(fnArgs.usage.value, fnResult.options, fnArgs.current,
                         OrDefault(fnArgs.argv.sort, "time"),
                         OrDefault(fnArgs.argv.order, "desc"))

\* Records of 5, 10 and 2 cents, the project filter matching the first two,
\* detailed view by cost, descending: the rows are those of 10 and 5 cents.
DetailedByCostExample ==
    /\ Reported
    /\ fnArgs.usage = Returned(<<FIVE_CENTS_WEB, TEN_CENTS_WEB, TWO_CENTS_API>>)
    /\ fnArgs.argv = [time |-> AbsentStr, project |-> P_WEB, sort |-> Given("cost"),
                      order |-> Given("desc"), detailed |-> TRUE, all |-> FALSE]
    /\ fnResult.rows = <<TEN_CENTS_WEB, FIVE_CENTS_WEB>>

\* The project that the documentation gives the records of a file: the last
\* segment of the cwd of the first usage-bearing line of the file, the name of
\* the directory when that line has no cwd.
ProjectOfFile(ls, dir) ==
    LET bearing == {i \in 1 .. Len(ls) : UsageBearing(ls[i])}
        first == CHOOSE i \in bearing : \A j \in bearing : i <= j
    IN IF bearing # {} /\ ls[first].cwd # <<>>
       THEN ls[first].cwd[Len(ls[first].cwd)]
       ELSE dir

\* C26 (as claimed): the project of the records of a file is resolved once per
\* file, from the first usage-bearing line of that file (the last segment of
\* its cwd) or else the name of the directory; it depends neither on the
\* other files of the directory nor on the lines without usage.
C26_ProjectResolvedPerFile ==
    [][ReadsJsonl =>
          \A k \in (Len(messages) + 1) .. Len(messages') :
              messages'[k].project = ProjectOfFile(lines', DirName(dirIdx))]_vars

(***************************************************************************)
(* lib/usage.js : the record of one usage-bearing line, for bounded usage  *)
(* objects in which every count is missing, 0 or positive                  *)
(***************************************************************************)
TokenCounts == {AbsentNum} \cup (0 .. MaxTokens)

UsageObjects ==
    [input_tokens : {AbsentNum, 0, MaxTokens},
     output_tokens : {AbsentNum, 0, MaxTokens},
     cache_write_tokens : TokenCounts,
     cache_creation_input_tokens : TokenCounts,
     cache_read_tokens : TokenCounts,
     cache_read_input_tokens : TokenCounts]

DetailsInit ==
    /\ PricingIdle
    /\ RunIdle
    /\ fnResult = NoResult
    /\ fnName = "messageDetails"
    /\ fnArgs \in [line : {[UsageLine EXCEPT !.usage = u] : u \in UsageObjects},
                   project : {P_WEB}, table : {FALLBACK_PRICING}]

CallMessageDetails ==
    /\ fnName = "messageDetails"
    /\ fnResult = NoResult
    /\ fnResult' = Returned(MessageDetails(fnArgs.line, fnArgs.project, fnArgs.table))
    /\ UNCHANGED <<fnName, fnArgs>>
    /\ UNCHANGED pricingVars
    /\ UNCHANGED runVars

DetailsNext == CallMessageDetails

SpecDetails == DetailsInit /\ [][DetailsNext]_vars

\* the count is present and is not zero
PresentNonZero(n) == n # AbsentNum /\ n # 0

\* a count, 0 when it is missing
Count(n) == IF n = AbsentNum THEN 0 ELSE n

\* C27: in the record of a usage-bearing line cacheWriteTokens is the line's
\* cache_write_tokens when that is present and not zero, else its
\* cache_creation_input_tokens, else 0; cacheReadTokens likewise from
\* cache_read_tokens, cache_read_input_tokens, 0; inputTokens and
\* outputTokens are 0 when the field is missing.
C27_TokenAliases ==
    (fnName = "messageDetails" /\ fnResult # NoResult) =>
        LET usage == fnArgs.line.usage
            record == fnResult.value
        IN /\ record.cacheWriteTokens =
                  IF PresentNonZero(usage.cache_write_tokens)
                  THEN usage.cache_write_tokens
                  ELSE Count(usage.cache_creation_input_tokens)
           /\ record.cacheReadTokens =
                  IF PresentNonZero(usage.cache_read_tokens)
                  THEN usage.cache_read_tokens
                  ELSE Count(usage.cache_read_input_tokens)
           /\ record.inputTokens = Count(usage.input_tokens)
           /\ record.outputTokens = Count(usage.output_tokens)

\* A line with cache_write_tokens 0 and cache_creation_input_tokens 2, with
\* both cache_read_tokens 1 and cache_read_input_tokens 2, and without
\* input_tokens: the record has cacheWriteTokens 2, cacheReadTokens 1,
\* inputTokens 0.
C27_Witness ==
    /\ fnName = "messageDetails" /\ fnResult # NoResult
    /\ fnArgs.line.usage.cache_write_tokens = 0
    /\ fnArgs.line.usage.cache_creation_input_tokens = 2
    /\ fnArgs.line.usage.cache_read_tokens = 1
    /\ fnArgs.line.usage.cache_read_input_tokens = 2
    /\ fnArgs.line.usage.input_tokens = AbsentNum
    /\ fnResult.value.cacheWriteTokens = 2
    /\ fnResult.value.cacheReadTokens = 1
    /\ fnResult.value.inputTokens = 0

RECURSIVE TotalOf(_, _)
\* the sum of a field over the records
TotalOf(msgs, field) ==
    IF msgs = <<>> THEN 0 ELSE Head(msgs)[field] + TotalOf(Tail(msgs), field)

\* getUsage has returned a result
UsageReturned == pc \in {"report", "done"} /\ error = "none"

\* C28: in every result of getUsage the totals agree with the records:
\* messageCount is the number of records, each token total is the sum of that
\* field over the records, and distinctModels holds the models of the records
\* that have one, each once; and so when lines, files or directories were
\* skipped.
C28_TotalsAgreeWithMessages ==
    UsageReturned =>
        /\ totals.messageCount = Len(messages)
        /\ totals.inputTokens = TotalOf(messages, "inputTokens")
        /\ totals.outputTokens = TotalOf(messages, "outputTokens")
        /\ totals.cacheWriteTokens = TotalOf(messages, "cacheWriteTokens")
        /\ totals.cacheReadTokens = TotalOf(messages, "cacheReadTokens")
        /\ {totals.models[i] : i \in 1 .. Len(totals.models)} =
              {messages[k].model : k \in 1 .. Len(messages)} \ {AbsentStr}
        /\ \A i, j \in 1 .. Len(totals.models) :
              i # j => totals.models[i] # totals.models[j]

\* A result of three records of two models, got although records of a
\* readable file were lost behind an unreadable one.
C28_Witness ==
    /\ UsageReturned
    /\ Len(messages) = 3
    /\ Len(totals.models) = 2
    /\ totals.inputTokens = 20
    /\ totals.outputTokens = 5
    /\ missed > 0

\* The number of lines of the file that satisfy a condition
CountLines(ls, Test(_)) == Cardinality({i \in 1 .. Len(ls) : Test(ls[i])})

Unparseable(line) == UsageBearing(line) /\ line.timestamp = BadDate
Undated(line) == UsageBearing(line) /\ line.timestamp = AbsentNum
Dated(line) == UsageBearing(line) /\ line.timestamp \notin {BadDate, AbsentNum}

\* C30: a usage-bearing line whose timestamp is present but cannot be parsed
\* yields no record and changes no total; a usage-bearing line without
\* timestamp yields a record whose timestamp is null.  So a file adds one
\* record per usage-bearing line whose timestamp is parseable or missing, as
\* many records without timestamp as it has such lines without timestamp,
\* and the totals grow by the counts of those lines only.
C30_UnparseableDroppedUndatedKept ==
    [][ReadsJsonl =>
          LET new == SubSeq(messages', Len(messages) + 1, Len(messages'))
              kept == SelectSeq(lines', LAMBDA l : Dated(l) \/ Undated(l))
          IN /\ Len(new) = Len(kept)
             /\ \A k \in 1 .. Len(new) :
                   /\ new[k].timestamp = kept[k].timestamp
                   /\ TokensOf(new[k], kept[k])
             /\ totals'.messageCount = totals.messageCount + Len(kept)
             /\ totals'.inputTokens = totals.inputTokens + TotalOf(new, "inputTokens")
             /\ totals'.outputTokens = totals.outputTokens + TotalOf(new, "outputTokens")
             /\ (\A i \in 1 .. Len(lines') : ~(Dated(lines'[i]) \/ Undated(lines'[i]))) =>
                   (messages' = messages /\ totals' = totals)]_vars

\* The first file read held a line with an unparseable timestamp and a line
\* without timestamp: one record, without timestamp, and the 7 input tokens
\* of the first line are in no total.
C30_Witness ==
    /\ lines = <<BadDateLine, UndatedLine>>
    /\ Len(messages) = 1
    /\ messages[1].timestamp = AbsentNum
    /\ totals.messageCount = 1
    /\ totals.inputTokens = 0
    /\ totals.outputTokens = 1

\* The table that the mapping served by the pricing server gives: its entries
\* that are objects with an input or an output rate, missing rates as 0.
FetchedTable ==
    <<[key |-> NameS,
       value |-> [input_cost_per_token |-> 3, output_cost_per_token |-> 0,
                  cache_creation_input_token_cost |-> 0,
                  cache_read_input_token_cost |-> 1]],
      [key |-> NameXsx,
       value |-> [input_cost_per_token |-> 0, output_cost_per_token |-> 0,
                  cache_creation_input_token_cost |-> 0,
                  cache_read_input_token_cost |-> 0]]>>

\* Call c starts, or completes its request, in the step.
Starts(c) == calls[c].pc = "idle" /\ calls'[c].pc # "idle"
Completes(c) == calls[c].pc = "fetching" /\ calls'[c].pc = "returned"

\* C29: every call of fetchModelPricing that goes to the network (cache
\* empty, expired, or bypassed with useCache = false) makes its own request,
\* whatever other call is under way, and when its request completes it
\* overwrites the cache with its own outcome and the time of completion, the
\* fetched table on success and the fallback table when the request fails,
\* whatever was cached and however young; the cache changes in no other way
\* but clearCache, so after overlapping calls it holds the outcome of the call
\* that completed last.
C29_LastCompletedCallWins ==
    [][/\ \A c \in Calls :
             /\ (Starts(c) /\ calls'[c].pc = "fetching") => calls'[c].requested
             /\ (Starts(c) /\ calls'[c].pc = "returned") =>
                    (calls'[c].useCache /\ isCacheValid /\ ~calls'[c].requested)
             /\ Completes(c) =>
                    /\ cachedPricing' = calls'[c].result
                    /\ cacheTimestamp' = now
                    /\ calls'[c].outcome = "mapping" => calls'[c].result = FetchedTable
                    /\ calls'[c].outcome \in {"error", "timeout", "invalid", "null"} =>
                           calls'[c].result = FALLBACK_PRICING
       /\ cachedPricing' # cachedPricing =>
             \/ \E c \in Calls : Completes(c)
             \/ cachedPricing' = AbsentTable]_vars

\* Two calls that bypass the cache overlap: the second to start has completed
\* with the fetched table, which is now cached, while the request of the
\* first, sent before that, is still under way.
C29_Witness ==
    /\ calls[1].pc = "returned"
    /\ ~calls[1].useCache
    /\ calls[1].outcome = "mapping"
    /\ cachedPricing = FetchedTable
    /\ cacheTimestamp = now
    /\ calls[2].pc = "fetching"
    /\ ~calls[2].useCache
    /\ calls[2].requested
    /\ calls[2].start < lastWrite

====
